---- MODULE Spec2Model ----
(***************************************************************************)
(* The optimizing backend of nearly_cc: instruction sequences, the         *)
(* control-flow graph and its builder, the flattening of a graph back to a *)
(* sequence, the dataflow engine with the live-vregs analysis, and the two *)
(* graph transformations LVN and DSE.                                      *)
(*                                                                         *)
(* Objects that the C++ code shares by pointer (basic blocks, graphs) live *)
(* in a heap: W.heap holds the InstructionSequence objects, W.graphs the   *)
(* ControlFlowGraph objects, and a pointer is an index into them (0 is     *)
(* nullptr).  Instructions and operands have value semantics (every        *)
(* transfer between sequences goes through Instruction::duplicate).        *)
(* A failed assert or a raised RuntimeError is recorded in W.err; every    *)
(* operation is the identity on a world whose err is set.                  *)
(***************************************************************************)
EXTENDS Integers, Sequences, FiniteSets, TLC

VARIABLES pc, props, iseq, W, cfg, flat, df, lvn_cfg, dse_cfg, lvn_log, dse_log

vars == <<pc, props, iseq, W, cfg, flat, df, lvn_cfg, dse_cfg, lvn_log, dse_log>>

----------------------------------------------------------------------------
(* Operands and instructions                                               *)

NoLabel == ""

NoReg == 0 - 1

Vreg(r) == [kind |-> "VREG", basereg |-> r, imm_ival |-> 0, label |-> NoLabel]

VregMem(r) == [kind |-> "VREG_MEM", basereg |-> r, imm_ival |-> 0, label |-> NoLabel]

VregMemOff(r, off) == [kind |-> "VREG_MEM_OFF", basereg |-> r, imm_ival |-> off, label |-> NoLabel]

Imm(v) == [kind |-> "IMM_IVAL", basereg |-> NoReg, imm_ival |-> v, label |-> NoLabel]

Label(l) == [kind |-> "LABEL", basereg |-> NoReg, imm_ival |-> 0, label |-> l]

\* Operand::Operand(Kind kind, long ival1), as LVN calls it with a register kind
OperandOfKind(kind, r) == [kind |-> kind, basereg |-> r, imm_ival |-> 0, label |-> NoLabel]

is_imm_ival(op) == op.kind = "IMM_IVAL"

is_label(op) == op.kind = "LABEL"

is_memref(op) == op.kind \in {"VREG_MEM", "VREG_MEM_OFF"}

has_base_reg(op) == op.basereg >= 0

Ins0(opc) == [opcode |-> opc, operands |-> <<>>]

Ins1(opc, a) == [opcode |-> opc, operands |-> <<a>>]

Ins2(opc, a, b) == [opcode |-> opc, operands |-> <<a, b>>]

Ins3(opc, a, b, c) == [opcode |-> opc, operands |-> <<a, b, c>>]

get_num_operands(ins) == Len(ins.operands)

\* operand indices are 0-based, as in the code
get_operand(ins, i) == ins.operands[i + 1]

set_operand(ins, i, op) == [ins EXCEPT !.operands[i + 1] = op]

----------------------------------------------------------------------------
(* Finite maps (std::map)                                                  *)

EmptyMap == [x \in {} |-> 0]

MapPut(m, k, v) == [x \in (DOMAIN m) \cup {k} |-> IF x = k THEN v ELSE m[x]]

MapHas(m, k) == k \in DOMAIN m

\* The({e(x) : x \in {v}}) is e(v) with v computed once: it stands for a local
\* variable of the code that is assigned once and read several times
The(S) == CHOOSE x \in S : TRUE

----------------------------------------------------------------------------
(* InstructionSequence                                                     *)

NewInstructionSequence ==
  [m_instructions |-> <<>>, m_label_map |-> EmptyMap, m_next_label |-> NoLabel,
   m_kind |-> "BASICBLOCK_INTERIOR", m_block_id |-> 0 - 1, m_code_order |-> 0 - 1]

NewBasicBlock(kind, code_order, block_label) ==
  [m_instructions |-> <<>>, m_label_map |-> EmptyMap, m_next_label |-> block_label,
   m_kind |-> kind, m_block_id |-> 0 - 1, m_code_order |-> code_order]

append(s, ins) ==
  [s EXCEPT !.m_label_map = IF s.m_next_label # NoLabel
                               THEN MapPut(@, s.m_next_label, Len(s.m_instructions))
                               ELSE @,
            !.m_instructions = Append(@, [label |-> s.m_next_label, ins |-> ins]),
            !.m_next_label = NoLabel]

get_length(s) == Len(s.m_instructions)

\* instruction indices are 0-based, as in the code
get_instruction(s, i) == s.m_instructions[i + 1].ins

get_last_instruction(s) == s.m_instructions[Len(s.m_instructions)].ins

has_label(s, i) == s.m_instructions[i + 1].label # NoLabel

\* define_label asserts that no label is pending
define_label_ok(s) == s.m_next_label = NoLabel

define_label(s, l) == [s EXCEPT !.m_next_label = l]

has_block_label(s) ==
  IF s.m_instructions = <<>> THEN s.m_next_label # NoLabel ELSE has_label(s, 0)

get_block_label(s) ==
  IF s.m_instructions = <<>> THEN s.m_next_label ELSE s.m_instructions[1].label

set_block_label_ok(s) == s.m_instructions # <<>> \/ define_label_ok(s)

set_block_label_dropped(s, l) == s

set_block_label(s, l) ==
  IF s.m_instructions = <<>> THEN define_label(s, l)
  ELSE [s EXCEPT !.m_instructions[1].label = l]

----------------------------------------------------------------------------
(* The world: heap of blocks, the graphs, the failure flag                 *)

NullPtr == 0

EmptyWorld == [heap |-> <<>>, graphs |-> <<>>, err |-> "", ret |-> NullPtr]

Fail(w, what) == IF w.err # "" THEN w ELSE [w EXCEPT !.err = what]

\* new InstructionSequence(...): the pointer is returned in ret
AllocBlock(w, s) == [w EXCEPT !.heap = Append(@, s), !.ret = Len(w.heap) + 1]

\* new ControlFlowGraph(): m_entry(nullptr), m_exit(nullptr)
NewControlFlowGraph(w) ==
  [w EXCEPT !.graphs = Append(@, [m_basic_blocks |-> <<>>, m_entry |-> NullPtr,
                                  m_exit |-> NullPtr, m_incoming_edges |-> EmptyMap,
                                  m_outgoing_edges |-> EmptyMap, m_num_edges |-> 0]),
            !.ret = Len(w.graphs) + 1]

SeqRange(s) == {s[i] : i \in 1..Len(s)}

get_num_blocks(w, g) == Len(w.graphs[g].m_basic_blocks)

adopt_basic_block(w, g, bb) ==
  IF w.err # "" THEN w
  ELSE LET G == w.graphs[g]
           kind == w.heap[bb].m_kind
           w1 == [w EXCEPT !.heap[bb].m_block_id = Len(G.m_basic_blocks),
                           !.graphs[g].m_basic_blocks = Append(@, bb)]
       IN IF kind = "BASICBLOCK_ENTRY" /\ G.m_entry # NullPtr
            THEN Fail(w1, "assert(m_entry == nullptr)")
          ELSE IF kind = "BASICBLOCK_EXIT" /\ G.m_exit # NullPtr
            THEN Fail(w1, "assert(m_exit == nullptr)")
          ELSE [w1 EXCEPT !.graphs[g].m_entry = IF kind = "BASICBLOCK_ENTRY" THEN bb ELSE @,
                          !.graphs[g].m_exit = IF kind = "BASICBLOCK_EXIT" THEN bb ELSE @]

create_basic_block(w, g, kind, code_order, label) ==
  IF w.err # "" THEN w
  ELSE The({[adopt_basic_block(w1, g, w1.ret) EXCEPT !.ret = w1.ret] :
               w1 \in {AllocBlock(w, NewBasicBlock(kind, code_order, label))}})

get_outgoing_edges(G, bb) ==
  IF MapHas(G.m_outgoing_edges, bb) THEN G.m_outgoing_edges[bb] ELSE <<>>

get_incoming_edges(G, bb) ==
  IF MapHas(G.m_incoming_edges, bb) THEN G.m_incoming_edges[bb] ELSE <<>>

\* TRUE iff lookup_edge(source, target) returns an edge
lookup_edge_none(G, source, target) == FALSE

lookup_edge(G, source, target) ==
  \E j \in 1..Len(get_outgoing_edges(G, source)) :
     get_outgoing_edges(G, source)[j].m_target = target

\* an Edge object is identified by eid (the order of its allocation in its graph)
create_edge_swapped(w, g, source, target, kind) ==
  IF w.err # "" THEN w
  ELSE LET G == w.graphs[g]
           e == [eid |-> G.m_num_edges + 1, m_kind |-> kind,
                 m_source |-> target, m_target |-> source]
       IN [w EXCEPT !.graphs[g].m_outgoing_edges =
                        MapPut(@, target, Append(get_outgoing_edges(G, target), e)),
                    !.graphs[g].m_incoming_edges =
                        MapPut(@, source, Append(get_incoming_edges(G, source), e)),
                    !.graphs[g].m_num_edges = @ + 1]

create_edge(w, g, source, target, kind) ==
  IF w.err # "" THEN w
  ELSE LET G == w.graphs[g]
           e == [eid |-> G.m_num_edges + 1, m_kind |-> kind,
                 m_source |-> source, m_target |-> target]
       IN IF source \notin SeqRange(G.m_basic_blocks) \/ target \notin SeqRange(G.m_basic_blocks)
            THEN Fail(w, "assert(block belongs to this ControlFlowGraph)")
          ELSE IF lookup_edge(G, source, target)
            THEN Fail(w, "assert(lookup_edge(source, target) == nullptr)")
          ELSE [w EXCEPT !.graphs[g].m_outgoing_edges =
                             MapPut(@, source, Append(get_outgoing_edges(G, source), e)),
                         !.graphs[g].m_incoming_edges =
                             MapPut(@, target, Append(get_incoming_edges(G, target), e)),
                         !.graphs[g].m_num_edges = @ + 1]

----------------------------------------------------------------------------
(* ControlFlowGraphBuilder                                                 *)

\* LowLevelInstructionProperties
LowLevel_is_function_call(ins) == ins.opcode = "MINS_CALL"

LowLevel_falls_through(ins) == ins.opcode # "MINS_JMP"

\* HighLevelInstructionProperties, for the opcodes that lower to MINS_CALL and
\* MINS_JMP
HighLevel_is_function_call(ins) == ins.opcode = "HINS_call"

HighLevel_falls_through(ins) == ins.opcode # "HINS_jmp"

\* m_ins_props: p is "LowLevel" or "HighLevel" (the template argument)
is_function_call(p, ins) ==
  IF p = "LowLevel" THEN LowLevel_is_function_call(ins) ELSE HighLevel_is_function_call(ins)

falls_through_always(p, ins) == TRUE

falls_through(p, ins) ==
  IF p = "LowLevel" THEN LowLevel_falls_through(ins) ELSE HighLevel_falls_through(ins)

is_branch(ins) ==
  get_num_operands(ins) > 0
  /\ get_operand(ins, get_num_operands(ins) - 1).kind = "LABEL"

ends_in_branch(p, bb) ==
  ~is_function_call(p, get_last_instruction(bb)) /\ is_branch(get_last_instruction(bb))

\* the label operand of the branch that ends bb (its last operand)
branch_label(bb) ==
  LET last == get_last_instruction(bb)
  IN get_operand(last, get_num_operands(last) - 1).label

\* the instructions ScanFrom adds to a block after the one at index: it stops at
\* the end of the sequence, after a call, after a branch, or before a label
RECURSIVE ScanFromOverLabels(_, _, _, _)
ScanFromOverLabels(p, s, bb, index) ==
  LET ins == get_instruction(s, index)
  IN The({IF index + 1 >= get_length(s) THEN bb1
          ELSE IF is_function_call(p, ins) THEN bb1
          ELSE IF is_branch(ins) THEN bb1
          ELSE ScanFromOverLabels(p, s, bb1, index + 1) : bb1 \in {append(bb, ins)}})

RECURSIVE ScanFrom(_, _, _, _)
ScanFrom(p, s, bb, index) ==
  LET ins == get_instruction(s, index)
  IN The({IF index + 1 >= get_length(s) THEN bb1
          ELSE IF is_function_call(p, ins) THEN bb1
          ELSE IF is_branch(ins) THEN bb1
          ELSE IF has_label(s, index + 1) THEN bb1
          ELSE ScanFrom(p, s, bb1, index + 1) : bb1 \in {append(bb, ins)}})

\* scan_basic_block: the new block is created (and adopted) empty, then filled
scan_basic_block_reversed(p, s, w, g, item) ==
  The({IF w1.err # "" THEN w1
       ELSE [w1 EXCEPT !.heap[w1.ret] = ScanFrom(p, s, w1.heap[w1.ret], item.ins_index)] :
         w1 \in {create_basic_block(w, g, "BASICBLOCK_INTERIOR",
                                    get_length(s) - item.ins_index, item.label)}})

scan_basic_block(p, s, w, g, item) ==
  The({IF w1.err # "" THEN w1
       ELSE [w1 EXCEPT !.heap[w1.ret] = ScanFrom(p, s, w1.heap[w1.ret], item.ins_index)] :
         w1 \in {create_basic_block(w, g, "BASICBLOCK_INTERIOR", item.ins_index, item.label)}})

WorkItem(i, pred, kind, label) ==
  [ins_index |-> i, pred |-> pred, edge_kind |-> kind, label |-> label]

\* What build() does with a newly scanned block bb after its incoming edge
\* is made: the work items for its successors.  B1 is the builder (its world
\* already holds the edge), blk the block.
BuildSuccessors(p, s, B1, item, bb, blk) ==
  LET n == get_length(s)
      br == ends_in_branch(p, blk)
      resolved == br => MapHas(s.m_label_map, branch_label(blk))
      wl1 == IF br /\ resolved
               THEN Append(B1.work_list,
                           WorkItem(s.m_label_map[branch_label(blk)], bb,
                                    "EDGE_BRANCH", branch_label(blk)))
               ELSE B1.work_list
      ft == falls_through(p, get_last_instruction(blk))
      target_index == item.ins_index + get_length(blk)
  IN IF ~resolved
       THEN [B1 EXCEPT !.w = Fail(@, "RuntimeError: no instruction has label")]
     ELSE IF ft /\ target_index > n
       THEN [B1 EXCEPT !.w = Fail(@, "assert(target_index <= m_iseq->get_length())")]
     ELSE IF ft /\ target_index = n
       THEN [B1 EXCEPT !.work_list = wl1, !.last = bb]
     ELSE IF ft
       THEN [B1 EXCEPT !.work_list =
               Append(wl1, WorkItem(target_index, bb, "EDGE_FALLTHROUGH", NoLabel))]
     ELSE [B1 EXCEPT !.work_list = wl1]

\* The work item's block bb exists in world w1 (known: it existed before this
\* turn): check its label, make the edge from the predecessor, and for a new
\* block queue its successors.
BuildEdge(p, s, B0, item, known, w1, bb) ==
  IF w1.err # "" THEN [B0 EXCEPT !.w = w1]
  ELSE IF item.edge_kind = "EDGE_BRANCH" /\ get_block_label(w1.heap[bb]) # item.label
    THEN [B0 EXCEPT !.w = Fail(w1, "assert(bb->get_block_label() == item.label)")]
  ELSE The({IF known \/ B1.w.err # "" THEN B1
            ELSE BuildSuccessors(p, s, B1, item, bb, B1.w.heap[bb]) :
              B1 \in {[B0 EXCEPT !.w = create_edge(w1, B0.g, item.pred, bb, item.edge_kind),
                                 !.m_basic_blocks = IF known THEN @
                                                    ELSE MapPut(@, item.ins_index, bb)]}})

\* One turn of the work-list loop of build().  B is the builder:
\* w (the world), g (m_cfg), exit, m_basic_blocks, work_list, last.
BuildStep(p, s, B) ==
  LET item == Head(B.work_list)
      B0 == [B EXCEPT !.work_list = Tail(@)]
      n == get_length(s)
  IN IF item.ins_index > n
       THEN [B0 EXCEPT !.w = Fail(@, "assert(item.ins_index <= m_iseq->get_length())")]
     ELSE IF item.ins_index = n
       THEN [B0 EXCEPT !.w = create_edge(B.w, B.g, item.pred, B.exit, item.edge_kind)]
     ELSE IF MapHas(B.m_basic_blocks, item.ins_index)
       THEN LET b == B.m_basic_blocks[item.ins_index]
            IN The({BuildEdge(p, s, B0, item, TRUE, w1, b) :
                      w1 \in {IF item.edge_kind = "EDGE_BRANCH" /\ ~has_block_label(B.w.heap[b])
                                THEN [B.w EXCEPT !.heap[b] = set_block_label(@, item.label)]
                                ELSE B.w}})
     ELSE The({BuildEdge(p, s, B0, item, FALSE, w1, w1.ret) :
                 w1 \in {scan_basic_block(p, s, B.w, B.g, item)}})

RECURSIVE BuildLoop(_, _, _)
BuildLoop(p, s, B) ==
  IF B.w.err # "" \/ B.work_list = <<>> THEN B
  ELSE The({BuildLoop(p, s, B1) : B1 \in {BuildStep(p, s, B)}})

\* the rest of build() once m_cfg (g) and its entry and exit blocks exist in w2
BuildFrom(p, s, w2, g, entry, exit) ==
  The({IF B.w.err # "" THEN [B.w EXCEPT !.ret = g]
       ELSE IF B.last = NullPtr THEN [Fail(B.w, "assert(last != nullptr)") EXCEPT !.ret = g]
       ELSE [create_edge(B.w, g, B.last, exit, "EDGE_FALLTHROUGH") EXCEPT !.ret = g] :
         B \in {BuildLoop(p, s,
                  [w |-> w2, g |-> g, exit |-> exit,
                   m_basic_blocks |-> MapPut(EmptyMap, get_length(s), exit),
                   work_list |-> <<WorkItem(0, entry, "EDGE_FALLTHROUGH", NoLabel)>>,
                   last |-> NullPtr])}})

\* ControlFlowGraphBuilder(iseq).build(): the world after it; ret is m_cfg
build(p, s, w) ==
  The({The({The({BuildFrom(p, s, w2, w0.ret, w1.ret, w2.ret) :
                   w2 \in {create_basic_block(w1, w0.ret, "BASICBLOCK_EXIT", 2000000, NoLabel)}}) :
              w1 \in {create_basic_block(w0, w0.ret, "BASICBLOCK_ENTRY", 0 - 1, NoLabel)}}) :
         w0 \in {NewControlFlowGraph(w)}})

----------------------------------------------------------------------------
(* ControlFlowGraph::create_instruction_sequence                           *)

\* insertion of pointer b into a list of pointers sorted by code order
RECURSIVE InsertByCodeOrder(_, _, _)
InsertByCodeOrder(heap, sorted, b) ==
  IF sorted = <<>> THEN <<b>>
  ELSE IF heap[b].m_code_order < heap[Head(sorted)].m_code_order THEN <<b>> \o sorted
  ELSE <<Head(sorted)>> \o InsertByCodeOrder(heap, Tail(sorted), b)

RECURSIVE SortByCodeOrder(_, _)
SortByCodeOrder(heap, blocks) ==
  IF blocks = <<>> THEN <<>>
  ELSE The({InsertByCodeOrder(heap, sorted, Head(blocks)) :
               sorted \in {SortByCodeOrder(heap, Tail(blocks))}})

\* the comparator of the sort asserts that no two blocks share a code order
code_orders_distinct(heap, G) ==
  \A i, j \in 1..Len(G.m_basic_blocks) :
     i # j => heap[G.m_basic_blocks[i]].m_code_order # heap[G.m_basic_blocks[j]].m_code_order

get_blocks_in_code_order(heap, G) == SortByCodeOrder(heap, G.m_basic_blocks)

can_use_original_block_order(heap, G) ==
  \A order \in {get_blocks_in_code_order(heap, G)} :
     \A i \in 1..(Len(order) - 1) :
        \A j \in 1..Len(get_outgoing_edges(G, order[i])) :
           LET e == get_outgoing_edges(G, order[i])[j]
           IN e.m_kind = "EDGE_FALLTHROUGH" => e.m_target = order[i + 1]

RECURSIVE AppendAll(_, _)
AppendAll(s, slots) ==
  IF slots = <<>> THEN s
  ELSE The({AppendAll(s1, Tail(slots)) : s1 \in {append(s, Head(slots).ins)}})

append_basic_block_unlabelled(r, bb) ==
  IF r.err # "" THEN r ELSE [r EXCEPT !.seq = AppendAll(r.seq, bb.m_instructions)]

\* r is [err, seq]: the sequence under construction and the failure flag
append_basic_block(r, bb) ==
  IF r.err # "" THEN r
  ELSE IF has_block_label(bb) /\ ~define_label_ok(r.seq)
    THEN [r EXCEPT !.err = "assert(m_next_label.empty())"]
  ELSE LET s1 == IF has_block_label(bb) THEN define_label(r.seq, get_block_label(bb))
                 ELSE r.seq
       IN [r EXCEPT !.seq = AppendAll(s1, bb.m_instructions)]

RECURSIVE AppendBlocks(_, _, _)
AppendBlocks(heap, r, blocks) ==
  IF blocks = <<>> THEN r
  ELSE The({AppendBlocks(heap, r1, Tail(blocks)) :
               r1 \in {append_basic_block(r, heap[Head(blocks)])}})

rebuild_instruction_sequence(heap, G) ==
  The({AppendBlocks(heap, [err |-> "", seq |-> NewInstructionSequence], order) :
         order \in {get_blocks_in_code_order(heap, G)}})

\* Chunks: C is [chunks, chunk_map, err]; a Chunk pointer is an index into chunks
\* (0 is nullptr); new Chunk() value-initializes is_exit to false
ChunkOf(C, b) == IF MapHas(C.chunk_map, b) THEN C.chunk_map[b] ELSE NullPtr

IsExitBlock(heap, b) == heap[b].m_kind = "BASICBLOCK_EXIT"

RECURSIVE MapPutAll(_, _, _)
MapPutAll(m, keys, v) ==
  IF keys = <<>> THEN m
  ELSE The({MapPutAll(m1, Tail(keys), v) : m1 \in {MapPut(m, Head(keys), v)}})

\* the body of the chunk-finding loop for one edge
ChunkEdge(heap, C, e) ==
  IF C.err # "" \/ e.m_kind # "EDGE_FALLTHROUGH" THEN C
  ELSE
    LET pred == e.m_source
        succ == e.m_target
        pred_chunk == ChunkOf(C, pred)
        succ_chunk == ChunkOf(C, succ)
        fresh == Len(C.chunks) + 1
    IN IF pred_chunk = NullPtr /\ succ_chunk = NullPtr
         THEN [C EXCEPT !.chunks = Append(@, [blocks |-> <<pred, succ>>,
                                              is_exit |-> IsExitBlock(heap, pred)
                                                          \/ IsExitBlock(heap, succ)]),
                        !.chunk_map = MapPut(MapPut(@, pred, fresh), succ, fresh)]
       ELSE IF pred_chunk = NullPtr
         THEN IF Head(C.chunks[succ_chunk].blocks) # succ
                THEN [C EXCEPT !.err = "assert(succ_chunk->is_first(succ))"]
              ELSE [C EXCEPT !.chunks[succ_chunk].blocks = <<pred>> \o @,
                             !.chunks[succ_chunk].is_exit = @ \/ IsExitBlock(heap, pred),
                             !.chunk_map = MapPut(@, pred, succ_chunk)]
       ELSE IF succ_chunk = NullPtr
         THEN IF C.chunks[pred_chunk].blocks[Len(C.chunks[pred_chunk].blocks)] # pred
                THEN [C EXCEPT !.err = "assert(pred_chunk->is_last(pred))"]
              ELSE [C EXCEPT !.chunks[pred_chunk].blocks = Append(@, succ),
                             !.chunks[pred_chunk].is_exit = @ \/ IsExitBlock(heap, succ),
                             !.chunk_map = MapPut(@, succ, pred_chunk)]
       ELSE IF pred_chunk = succ_chunk
         THEN [C EXCEPT !.err = "the same Chunk is deleted twice"]
       ELSE LET merged == C.chunks[pred_chunk].blocks \o C.chunks[succ_chunk].blocks
            IN [C EXCEPT !.chunks = Append(@, [blocks |-> merged,
                                               is_exit |-> \E i \in 1..Len(merged) :
                                                              IsExitBlock(heap, merged[i])]),
                         !.chunk_map = MapPutAll(@, merged, fresh)]

RECURSIVE ChunkEdges(_, _, _)
ChunkEdges(heap, C, edges) ==
  IF edges = <<>> THEN C
  ELSE The({ChunkEdges(heap, C1, Tail(edges)) : C1 \in {ChunkEdge(heap, C, Head(edges))}})

\* keys: the keys of m_outgoing_edges in the order the std::map iterates them
\* (the order of the block addresses)
RECURSIVE FindChunks(_, _, _, _)
FindChunks(heap, G, C, keys) ==
  IF keys = <<>> THEN C
  ELSE The({FindChunks(heap, G, C1, Tail(keys)) :
               C1 \in {ChunkEdges(heap, C, G.m_outgoing_edges[Head(keys)])}})

EdgeTargetsNone(edges) == <<>>

\* visit_successors: the targets of the outgoing edges, in their order
EdgeTargets(edges) == [i \in 1..Len(edges) |-> edges[i].m_target]

\* T is [r, finished, work_list, exit_chunk]; the blocks of a chunk are appended
\* (or, in the exit chunk, only marked) and their successors visited
RECURSIVE EmitChunk(_, _, _, _, _)
EmitChunk(heap, G, T, blocks, is_exit_chunk) ==
  IF blocks = <<>> THEN T
  ELSE LET b == Head(blocks)
       IN The({EmitChunk(heap, G, T1, Tail(blocks), is_exit_chunk) :
                 T1 \in {[T EXCEPT !.r = IF is_exit_chunk THEN @
                                         ELSE append_basic_block(T.r, heap[b]),
                                   !.finished = @ \cup {heap[b].m_block_id},
                                   !.work_list = @ \o EdgeTargets(get_outgoing_edges(G, b))]}})

RECURSIVE Traverse(_, _, _, _)
Traverse(heap, G, C, T) ==
  IF T.work_list = <<>> \/ T.r.err # "" THEN T
  ELSE LET bb == Head(T.work_list)
           T0 == [T EXCEPT !.work_list = Tail(@)]
       IN IF heap[bb].m_block_id \in T.finished THEN Traverse(heap, G, C, T0)
          ELSE IF MapHas(C.chunk_map, bb)
            THEN LET chunk == C.chunk_map[bb]
                     is_exit_chunk == C.chunks[chunk].is_exit
                     T1 == IF is_exit_chunk THEN [T0 EXCEPT !.exit_chunk = chunk] ELSE T0
                 IN The({Traverse(heap, G, C, T2) :
                           T2 \in {EmitChunk(heap, G, T1, C.chunks[chunk].blocks,
                                             is_exit_chunk)}})
          ELSE The({Traverse(heap, G, C, T2) :
                      T2 \in {[T0 EXCEPT !.r = append_basic_block(T.r, heap[bb]),
                                         !.finished = @ \cup {heap[bb].m_block_id},
                                         !.work_list =
                                            @ \o EdgeTargets(get_outgoing_edges(G, bb))]}})

reconstruct_instruction_sequence(heap, G, keys) ==
  IF G.m_entry = NullPtr THEN [err |-> "assert(m_entry != nullptr)", seq |-> NewInstructionSequence]
  ELSE IF G.m_exit = NullPtr THEN [err |-> "assert(m_exit != nullptr)", seq |-> NewInstructionSequence]
  ELSE IF Cardinality(DOMAIN G.m_outgoing_edges) # Cardinality(DOMAIN G.m_incoming_edges)
    THEN [err |-> "assert(m_outgoing_edges.size() == m_incoming_edges.size())",
          seq |-> NewInstructionSequence]
  ELSE The({IF C.err # "" THEN [err |-> C.err, seq |-> NewInstructionSequence]
            ELSE The({IF T.exit_chunk = NullPtr THEN T.r
                      ELSE AppendBlocks(heap, T.r, C.chunks[T.exit_chunk].blocks) :
                        T \in {Traverse(heap, G, C,
                                  [r |-> [err |-> "", seq |-> NewInstructionSequence],
                                   finished |-> {}, work_list |-> <<G.m_entry>>,
                                   exit_chunk |-> NullPtr])}}) :
              C \in {FindChunks(heap, G, [chunks |-> <<>>, chunk_map |-> EmptyMap, err |-> ""],
                                keys)}})

\* the result is [err, seq]
create_instruction_sequence(heap, G, keys) ==
  IF ~code_orders_distinct(heap, G)
    THEN [err |-> "assert(left->get_code_order() != right->get_code_order())",
          seq |-> NewInstructionSequence]
  ELSE IF can_use_original_block_order(heap, G) THEN rebuild_instruction_sequence(heap, G)
  ELSE reconstruct_instruction_sequence(heap, G, keys)

\* the orders in which a std::map keyed by block address can iterate
KeyOrders(keyset) ==
  {o \in [1..Cardinality(keyset) -> keyset] : \A i, j \in DOMAIN o : i # j => o[i] # o[j]}

----------------------------------------------------------------------------
(* HighLevel::is_def, get_def_vreg, is_use                                 *)

NO_DEST ==
  {"HINS_nop", "HINS_ret", "HINS_jmp", "HINS_enter", "HINS_leave",
   "HINS_cjmp_t", "HINS_cjmp_f"}

has_dest_operand(hl_opcode) == hl_opcode \notin NO_DEST

is_def(ins) ==
  IF ins.opcode = "HINS_call" THEN TRUE
  ELSE IF ~has_dest_operand(ins.opcode) THEN FALSE
  ELSE get_operand(ins, 0).kind = "VREG"

get_def_vreg(ins) ==
  IF ins.opcode = "HINS_call" THEN 0 ELSE get_operand(ins, 0).basereg

\* no operand kind of the high-level code modelled here has an index register
is_use(ins, operand_index) ==
  LET operand == get_operand(ins, operand_index)
  IN IF operand_index = 0 /\ has_dest_operand(ins.opcode)
       THEN is_memref(operand) /\ has_base_reg(operand)
       ELSE has_base_reg(operand)

----------------------------------------------------------------------------
(* LiveVregsAnalysis: a fact is the set of live virtual registers          *)

get_top_fact == {}

combine_facts(left, right) == left \cup right

\* the analysis is told of a def before the uses of the same instruction
model_instruction(ins, fact) ==
  LET killed == IF is_def(ins) THEN fact \ {get_def_vreg(ins)} ELSE fact
  IN killed \cup {get_operand(ins, i).basereg :
                    i \in {j \in 0..(get_num_operands(ins) - 1) : is_use(ins, j)}}

----------------------------------------------------------------------------
(* Dataflow<LiveVregsAnalysis>, a backward analysis: the logical begin     *)
(* facts are m_endfacts, the logical end facts are m_beginfacts, logical   *)
(* predecessors are reached over outgoing edges and logical successors     *)
(* over incoming edges; instructions are visited from last to first.       *)
(* Facts are indexed by block id (0-based in the code, id + 1 here).       *)

RECURSIVE TopFacts(_)
TopFacts(n) == IF n = 0 THEN <<>> ELSE Append(TopFacts(n - 1), get_top_fact)

\* Dataflow::Dataflow(cfg); executes counts the calls of execute()
NewDataflow(w, g) ==
  [m_cfg |-> g,
   m_beginfacts |-> TopFacts(get_num_blocks(w, g)),
   m_endfacts |-> TopFacts(get_num_blocks(w, g)),
   m_iter_order |-> <<>>,
   executes |-> 0]

get_block(G, id) == G.m_basic_blocks[id + 1]

Reverse(s) == [i \in 1..Len(s) |-> s[Len(s) + 1 - i]]

\* st is [visited, m_iter_order]
RECURSIVE postorder_on_cfg(_, _, _, _)
RECURSIVE PostorderEdges(_, _, _, _, _)
postorder_on_cfg(heap, G, st, bb) ==
  IF heap[bb].m_block_id \in st.visited THEN st
  ELSE The({[st2 EXCEPT !.m_iter_order = Append(@, heap[bb].m_block_id)] :
               st2 \in {The({PostorderEdges(heap, G, st1, get_incoming_edges(G, bb), 1) :
                               st1 \in {[st EXCEPT !.visited = @ \cup {heap[bb].m_block_id}]}})}})

PostorderEdges(heap, G, st, edges, i) ==
  IF i > Len(edges) THEN st
  ELSE The({PostorderEdges(heap, G, st1, edges, i + 1) :
               st1 \in {postorder_on_cfg(heap, G, st, edges[i].m_source)}})

\* m_iter_order is not cleared: a later call appends to the earlier order and
\* reverses the whole vector
compute_iter_order(heap, G, d) ==
  The({[d EXCEPT !.m_iter_order = Reverse(st.m_iter_order)] :
         st \in {postorder_on_cfg(heap, G, [visited |-> {}, m_iter_order |-> d.m_iter_order],
                                  G.m_exit)}})

\* the facts of the logical predecessors of bb, combined starting from top
RECURSIVE CombineEdges(_, _, _, _, _)
CombineEdges(heap, d, edges, j, fact) ==
  IF j > Len(edges) THEN fact
  ELSE CombineEdges(heap, d, edges, j + 1,
                    combine_facts(fact, d.m_beginfacts[heap[edges[j].m_target].m_block_id + 1]))

\* model the instructions at positions j, j-1, ..., 1 of a block
RECURSIVE ModelBackward(_, _, _)
ModelBackward(bb, j, fact) ==
  IF j = 0 THEN fact
  ELSE ModelBackward(bb, j - 1, model_instruction(bb.m_instructions[j].ins, fact))

\* the body of the loop over m_iter_order; P is [d, change]
\* fact0 is the combined fact at the logical beginning of block id, fact the
\* fact after modelling its instructions
StoreFactsIfChanged(P, id, fact0, fact) ==
  IF fact # P.d.m_beginfacts[id + 1]
    THEN [d |-> [P.d EXCEPT !.m_endfacts[id + 1] = fact0, !.m_beginfacts[id + 1] = fact],
          change |-> TRUE]
    ELSE P

StoreFacts(P, id, fact0, fact) ==
  IF fact # P.d.m_beginfacts[id + 1]
    THEN [d |-> [P.d EXCEPT !.m_endfacts[id + 1] = fact0, !.m_beginfacts[id + 1] = fact],
          change |-> TRUE]
    ELSE [d |-> [P.d EXCEPT !.m_endfacts[id + 1] = fact0], change |-> P.change]

UpdateBlockAlwaysChanged(heap, G, P, id) == [P EXCEPT !.change = TRUE]

UpdateBlock(heap, G, P, id) ==
  LET bb == get_block(G, id)
  IN The({The({StoreFacts(P, id, fact0, fact) :
                 fact \in {ModelBackward(heap[bb], Len(heap[bb].m_instructions), fact0)}}) :
            fact0 \in {CombineEdges(heap, P.d, get_outgoing_edges(G, bb), 1, get_top_fact)}})

RECURSIVE PassFrom(_, _, _, _)
PassFrom(heap, G, P, i) ==
  IF i > Len(P.d.m_iter_order) THEN P
  ELSE The({PassFrom(heap, G, P1, i + 1) :
               P1 \in {UpdateBlock(heap, G, P, P.d.m_iter_order[i])}})

WhileNotDoneOnce(heap, G, d) == PassFrom(heap, G, [d |-> d, change |-> FALSE], 1).d

\* while (!done): one pass over the iteration order, again if a fact changed
RECURSIVE WhileNotDone(_, _, _)
WhileNotDone(heap, G, d) ==
  The({IF P.change THEN WhileNotDone(heap, G, P.d) ELSE P.d :
         P \in {PassFrom(heap, G, [d |-> d, change |-> FALSE], 1)}})

execute(heap, G, d) ==
  The({[WhileNotDone(heap, G, d1) EXCEPT !.executes = @ + 1] :
         d1 \in {compute_iter_order(heap, G, d)}})

get_fact_at_end_of_block(heap, d, bb) == d.m_endfacts[heap[bb].m_block_id + 1]

get_fact_at_beginning_of_block(heap, d, bb) == d.m_beginfacts[heap[bb].m_block_id + 1]

\* the instruction is named by its 0-based index in bb (the code compares
\* Instruction pointers); the walk is from the last instruction backwards
RECURSIVE InstructionFactFrom(_, _, _, _, _)
InstructionFactFrom(blk, j, index, after_in_logical_order, fact) ==
  IF j = 0 THEN fact
  ELSE IF j - 1 = index /\ ~after_in_logical_order THEN fact
  ELSE IF j - 1 = index THEN model_instruction(blk.m_instructions[j].ins, fact)
  ELSE InstructionFactFrom(blk, j - 1, index, after_in_logical_order,
                           model_instruction(blk.m_instructions[j].ins, fact))

get_instruction_fact(heap, d, bb, index, after_in_logical_order) ==
  InstructionFactFrom(heap[bb], Len(heap[bb].m_instructions), index, after_in_logical_order,
                      d.m_endfacts[heap[bb].m_block_id + 1])

\* DIRECTION == BACKWARD: "after" in program order is "before" in logical order
get_fact_after_instruction(heap, d, bb, index) ==
  get_instruction_fact(heap, d, bb, index, FALSE)

get_fact_before_instruction(heap, d, bb, index) ==
  get_instruction_fact(heap, d, bb, index, TRUE)

----------------------------------------------------------------------------
(* ControlFlowGraphTransform::transform_cfg                                *)

\* One turn of the first loop of transform_cfg: new_bb is what
\* transform_basic_block returned for the block orig; it gets the kind, the
\* code order and the label of orig and is adopted by the graph result.  The
\* pointer to the new block is returned in ret.
TransformBlockInPlace(w, result, orig, new_bb) ==
  LET o == w.heap[orig]
      result_bb == set_block_label([new_bb EXCEPT !.m_kind = o.m_kind,
                                                  !.m_code_order = o.m_code_order],
                                   get_block_label(o))
  IN [adopt_basic_block([w EXCEPT !.heap[orig] = result_bb], result, orig) EXCEPT !.ret = orig]

TransformBlock(w, result, orig, new_bb) ==
  LET o == w.heap[orig]
      result_bb == set_block_label([new_bb EXCEPT !.m_kind = o.m_kind,
                                                  !.m_code_order = o.m_code_order],
                                   get_block_label(o))
  IN The({[adopt_basic_block(w1, result, w1.ret) EXCEPT !.ret = w1.ret] :
            w1 \in {AllocBlock(w, result_bb)}})

\* X is [w, block_map]; transformed maps each block of the original graph to
\* the block transform_basic_block makes of it
RECURSIVE TransformBlocks(_, _, _, _)
TransformBlocks(X, result, blocks, transformed) ==
  IF blocks = <<>> \/ X.w.err # "" THEN X
  ELSE The({TransformBlocks([w |-> w1, block_map |-> MapPut(X.block_map, Head(blocks), w1.ret)],
                            result, Tail(blocks), transformed) :
              w1 \in {TransformBlock(X.w, result, Head(blocks), transformed[Head(blocks)])}})

RECURSIVE CopyEdges(_, _, _, _)
CopyEdges(w, result, block_map, edges) ==
  IF edges = <<>> THEN w
  ELSE The({CopyEdges(w1, result, block_map, Tail(edges)) :
              w1 \in {create_edge(w, result, block_map[Head(edges).m_source],
                                  block_map[Head(edges).m_target], Head(edges).m_kind)}})

\* the second loop: the outgoing edges of the original blocks, block by block
RECURSIVE CopyEdgesOfBlocks(_, _, _, _, _)
CopyEdgesOfBlocks(w, G, result, block_map, blocks) ==
  IF blocks = <<>> THEN w
  ELSE The({CopyEdgesOfBlocks(w1, G, result, block_map, Tail(blocks)) :
              w1 \in {CopyEdges(w, result, block_map, get_outgoing_edges(G, Head(blocks)))}})

\* the world after transform_cfg() on graph g; ret is the new graph
transform_cfg(w, g, transformed) ==
  The({The({[CopyEdgesOfBlocks(X.w, w.graphs[g], w0.ret, X.block_map,
                               w.graphs[g].m_basic_blocks) EXCEPT !.ret = w0.ret] :
              X \in {TransformBlocks([w |-> w0, block_map |-> EmptyMap], w0.ret,
                                     w.graphs[g].m_basic_blocks, transformed)}}) :
         w0 \in {NewControlFlowGraph(w)}})

----------------------------------------------------------------------------
(* LVN: local value numbering with copy propagation                        *)

is_commutative(opcode) ==
  opcode \in {"HINS_add_b", "HINS_add_w", "HINS_add_l", "HINS_add_q",
              "HINS_mul_b", "HINS_mul_w", "HINS_mul_l", "HINS_mul_q"}

is_mov(opcode) == opcode \in {"HINS_mov_b", "HINS_mov_w", "HINS_mov_l", "HINS_mov_q"}

RECURSIVE InsertSorted(_, _)
InsertSorted(sorted, v) ==
  IF sorted = <<>> THEN <<v>>
  ELSE IF v < Head(sorted) THEN <<v>> \o sorted
  ELSE <<Head(sorted)>> \o InsertSorted(Tail(sorted), v)

RECURSIVE SortInts(_)
SortInts(ops) ==
  IF ops = <<>> THEN <<>>
  ELSE The({InsertSorted(sorted, Head(ops)) : sorted \in {SortInts(Tail(ops))}})

\* two keys are the same key of the std::map when neither is less than the
\* other: same opcode, same operands, same constant flag
LVNKey(op, ops, is_constant) ==
  [opcode |-> op,
   operands |-> IF is_commutative(op) THEN SortInts(ops) ELSE ops,
   is_constant_result |-> is_constant]

\* the tables of one call of transform_basic_block, with the block it builds;
\* log keeps, for each instruction of the original block, the value number
\* given to its result (0 when the instruction is copied unnumbered)
NewLVN ==
  [constant_to_value_number |-> EmptyMap, value_number_to_constant |-> EmptyMap,
   vreg_to_value_number |-> EmptyMap, value_number_to_vregs |-> EmptyMap,
   lvnkey_to_value_number |-> EmptyMap, next_value_number |-> 1,
   new_bb |-> NewInstructionSequence, log |-> <<>>]

\* value_number_to_vregs[vn].push_back(vreg)
PushBack(m, vn, vreg) == MapPut(m, vn, (IF MapHas(m, vn) THEN m[vn] ELSE <<>>) \o <<vreg>>)

LvnCopies(inst) ==
  \/ get_num_operands(inst) <= 0
  \/ is_label(get_operand(inst, 0))
  \/ (get_num_operands(inst) > 2 /\ is_label(get_operand(inst, 1)))
  \/ is_imm_ival(get_operand(inst, 0))

\* the value number of source operand i; N is [L, operand_value_numbers,
\* constant_value].  For a label operand the code pushes operand_value_number
\* without having assigned it: garbage stands for the value it then holds.
NumberOperand(N, operand, garbage) ==
  IF is_imm_ival(operand)
    THEN LET i_val == operand.imm_ival
             L1 == IF MapHas(N.L.constant_to_value_number, i_val) THEN N.L
                   ELSE [N.L EXCEPT !.constant_to_value_number =
                                       MapPut(@, i_val, N.L.next_value_number),
                                    !.value_number_to_constant =
                                       MapPut(@, N.L.next_value_number, i_val),
                                    !.next_value_number = @ + 1]
         IN [L |-> L1,
             operand_value_numbers |->
               Append(N.operand_value_numbers, L1.constant_to_value_number[i_val]),
             constant_value |-> N.constant_value]
  ELSE IF operand.kind # "LABEL"
    THEN LET vreg == operand.basereg
             L1 == IF MapHas(N.L.vreg_to_value_number, vreg) THEN N.L
                   ELSE [N.L EXCEPT !.vreg_to_value_number =
                                       MapPut(@, vreg, N.L.next_value_number),
                                    !.value_number_to_vregs =
                                       PushBack(@, N.L.next_value_number, vreg),
                                    !.next_value_number = @ + 1]
         IN [L |-> L1,
             operand_value_numbers |->
               Append(N.operand_value_numbers, L1.vreg_to_value_number[vreg]),
             constant_value |-> FALSE]
  ELSE [L |-> N.L,
        operand_value_numbers |-> Append(N.operand_value_numbers, garbage),
        constant_value |-> FALSE]

RECURSIVE NumberOperands(_, _, _, _)
NumberOperands(N, inst, i, garbage) ==
  IF i >= get_num_operands(inst) THEN N
  ELSE The({NumberOperands(N1, inst, i + 1, garbage) :
              N1 \in {NumberOperand(N, get_operand(inst, i), garbage)}})

\* copy propagation on the duplicate of inst, from source operand i on
RECURSIVE CopyPropagate(_, _, _)
CopyPropagate(L, new_inst, i) ==
  IF i >= get_num_operands(new_inst) THEN new_inst
  ELSE LET operand == get_operand(new_inst, i)
       IN IF ~is_imm_ival(operand) /\ ~is_label(operand)
            THEN LET original_reg == operand.basereg
                     target_value == L.vreg_to_value_number[original_reg]
                     target_reg == L.value_number_to_vregs[target_value][1]
                 IN The({CopyPropagate(L, ins1, i + 1) :
                           ins1 \in {set_operand(new_inst, i,
                                                 OperandOfKind(operand.kind, target_reg))}})
          ELSE CopyPropagate(L, new_inst, i + 1)

\* the result value number of inst under key, the rebinding of its first
\* operand's register, and the instruction appended to the new block
NumberResult(L, inst, key, operand_value_numbers) ==
  The({The({[L2 EXCEPT !.new_bb = append(@, CopyPropagate(L2, inst, 1)),
                        !.log = Append(@, L1.lvnkey_to_value_number[key])] :
              L2 \in {[L1 EXCEPT !.vreg_to_value_number =
                                    MapPut(@, get_operand(inst, 0).basereg,
                                           L1.lvnkey_to_value_number[key]),
                                 !.value_number_to_vregs =
                                    PushBack(@, L1.lvnkey_to_value_number[key],
                                             get_operand(inst, 0).basereg)]}}) :
         L1 \in {IF is_mov(inst.opcode)
                   THEN [L EXCEPT !.lvnkey_to_value_number =
                                     MapPut(@, key, operand_value_numbers[1])]
                 ELSE IF ~MapHas(L.lvnkey_to_value_number, key)
                   THEN [L EXCEPT !.lvnkey_to_value_number =
                                     MapPut(@, key, L.next_value_number),
                                  !.next_value_number = @ + 1]
                 ELSE L}})

\* the body of the loop over the instructions of orig_bb
LvnInstruction(L, inst, garbage) ==
  IF LvnCopies(inst)
    THEN [L EXCEPT !.new_bb = append(@, inst), !.log = Append(@, 0)]
  ELSE The({NumberResult(N.L, inst,
                         LVNKey(inst.opcode, N.operand_value_numbers, N.constant_value),
                         N.operand_value_numbers) :
              N \in {NumberOperands([L |-> L, operand_value_numbers |-> <<>>,
                                     constant_value |-> TRUE], inst, 1, garbage)}})

RECURSIVE LvnInstructions(_, _, _)
LvnInstructions(L, slots, garbage) ==
  IF slots = <<>> THEN L
  ELSE The({LvnInstructions(L1, Tail(slots), garbage) :
              L1 \in {LvnInstruction(L, Head(slots).ins, garbage)}})

\* LVN::transform_basic_block: the tables at the end hold new_bb and log
LVN_transform_basic_block(orig_bb, garbage) ==
  LvnInstructions(NewLVN, orig_bb.m_instructions, garbage)

\* tables that a call would find as the previous call left them
TablesKeptBetweenCalls(previous) ==
  [previous EXCEPT !.new_bb = NewInstructionSequence, !.log = <<>>]

\* the tables a call of transform_basic_block starts with: it declares them
\* anew as local variables, which hide the members of the same names, whatever
\* the previous call left in its own
TablesAtEntry(previous) == NewLVN

\* the calls of transform_basic_block that the loop of transform_cfg makes on
\* one LVN object, block after block; T maps each block to the tables at the
\* end of its call
RECURSIVE LvnBlocks(_, _, _, _, _)
LvnBlocks(heap, blocks, previous, garbage, T) ==
  IF blocks = <<>> THEN T
  ELSE The({LvnBlocks(heap, Tail(blocks), R, garbage, MapPut(T, Head(blocks), R)) :
              R \in {LvnInstructions(TablesAtEntry(previous),
                                     heap[Head(blocks)].m_instructions, garbage)}})

----------------------------------------------------------------------------
(* DSE: dead store elimination                                             *)

DseCopies(inst) ==
  \/ get_num_operands(inst) <= 0
  \/ is_label(get_operand(inst, 0))
  \/ is_imm_ival(get_operand(inst, 0))
  \/ (get_num_operands(inst) >= 2 /\ is_label(get_operand(inst, 1)))

\* a mov between operands with the same base register is dropped
DseSelfMove(inst) ==
  /\ is_mov(inst.opcode)
  /\ ~is_label(get_operand(inst, 1))
  /\ ~is_imm_ival(get_operand(inst, 1))
  /\ get_operand(inst, 0).basereg = get_operand(inst, 1).basereg

\* the test that skips the instruction whose destination dst is not live
DseDropsDead(dst, dst_live) ==
  ~dst_live /\ dst.basereg > 10 /\ dst.kind # "VREG_MEM" /\ dst.kind # "VREG_MEM_OFF"

\* TRUE iff the instruction at index of block bb is appended to the new block;
\* d is m_live_vregs
DseKeeps(heap, d, bb, index) ==
  LET inst == get_instruction(heap[bb], index)
  IN IF DseCopies(inst) THEN TRUE
     ELSE IF DseSelfMove(inst) THEN FALSE
     ELSE ~DseDropsDead(get_operand(inst, 0),
                        get_operand(inst, 0).basereg
                          \in get_fact_after_instruction(heap, d, bb, index))

\* D is [new_bb, log]; log lists the indices of the instructions that are kept
RECURSIVE DseInstructions(_, _, _, _, _)
DseInstructions(heap, d, bb, index, D) ==
  IF index >= get_length(heap[bb]) THEN D
  ELSE The({DseInstructions(heap, d, bb, index + 1, D1) :
              D1 \in {IF DseKeeps(heap, d, bb, index)
                        THEN [new_bb |-> append(D.new_bb, get_instruction(heap[bb], index)),
                              log |-> Append(D.log, index)]
                        ELSE D}})

DSE_transform_basic_block(heap, d, orig_bb) ==
  DseInstructions(heap, d, orig_bb, 0, [new_bb |-> NewInstructionSequence, log |-> <<>>])

----------------------------------------------------------------------------
(* Inputs: the instruction sequences a code generator hands over           *)

MaxLen == 3

Labels == {"L1", "L2"}

HighLevelUniverse ==
  {Ins2("HINS_mov_l", Vreg(11), Imm(1)), Ins2("HINS_mov_l", Vreg(0), Vreg(11)),
   Ins1("HINS_call", Label("f")), Ins0("HINS_ret")}
  \cup {Ins2("HINS_cjmp_t", Vreg(11), Label(l)) : l \in Labels}
  \cup {Ins1("HINS_jmp", Label(l)) : l \in Labels}

LowLevelUniverse ==
  {Ins0("MINS_NOP"), Ins1("MINS_CALL", Label("f"))}
  \cup {Ins1("MINS_JNE", Label(l)) : l \in Labels}
  \cup {Ins1("MINS_JMP", Label(l)) : l \in Labels}

Universe(p) == IF p = "LowLevel" THEN LowLevelUniverse ELSE HighLevelUniverse

\* a code generator builds its sequence with define_label and append
RECURSIVE MakeSeq(_, _, _)
MakeSeq(s, slots, end_label) ==
  IF slots = <<>>
    THEN IF end_label = NoLabel THEN s ELSE define_label(s, end_label)
  ELSE LET s1 == IF Head(slots).label = NoLabel THEN s
                 ELSE define_label(s, Head(slots).label)
       IN The({MakeSeq(s2, Tail(slots), end_label) : s2 \in {append(s1, Head(slots).ins)}})

\* labels are unique within a sequence
UniqueLabels(slots, end_label) ==
  /\ \A i, j \in 1..Len(slots) :
        i # j /\ slots[i].label # NoLabel => slots[i].label # slots[j].label
  /\ \A i \in 1..Len(slots) : end_label # NoLabel => slots[i].label # end_label

\* the sequences of a code generator end with an instruction (leave, ret), never
\* with a pending label
Inputs(p) ==
  {MakeSeq(NewInstructionSequence, slots, NoLabel) :
     slots \in {x \in UNION {[1..n -> [label : Labels \cup {NoLabel}, ins : Universe(p)]] :
                               n \in 0..MaxLen} : UniqueLabels(x, NoLabel)}}

----------------------------------------------------------------------------
(* The pipeline of HighLevelOpt::optimize, one action per call             *)

NoSeq == [err |-> "none", seq |-> NewInstructionSequence]

NoDataflow ==
  [m_cfg |-> NullPtr, m_beginfacts |-> <<>>, m_endfacts |-> <<>>, m_iter_order |-> <<>>,
   executes |-> 0]

\* execute() is called at most this many times on one Dataflow object
MaxExecutes == 2

Init ==
  /\ pc = "start"
  /\ props \in {"HighLevel", "LowLevel"}
  /\ iseq \in Inputs(props)
  /\ W = EmptyWorld
  /\ cfg = NullPtr
  /\ flat = NoSeq
  /\ df = NoDataflow
  /\ lvn_cfg = NullPtr
  /\ dse_cfg = NullPtr
  /\ lvn_log = <<>>
  /\ dse_log = <<>>

\* hl_cfg = hl_cfg_builder.build()
Build ==
  /\ pc = "start"
  /\ LET w1 == build(props, iseq, W)
     IN /\ W' = w1
        /\ cfg' = IF w1.err = "" THEN w1.ret ELSE NullPtr
        /\ pc' = IF w1.err = "" THEN "built" ELSE "failed"
  /\ UNCHANGED <<props, iseq, flat, df, lvn_cfg, dse_cfg, lvn_log, dse_log>>

\* hl_cfg->create_instruction_sequence() straight after build()
Flatten ==
  /\ pc = "built"
  /\ \E keys \in (IF can_use_original_block_order(W.heap, W.graphs[cfg])
                    THEN {<<>>} ELSE KeyOrders(DOMAIN W.graphs[cfg].m_outgoing_edges)) :
        flat' = create_instruction_sequence(W.heap, W.graphs[cfg], keys)
  /\ pc' = "flat"
  /\ UNCHANGED <<props, iseq, W, cfg, df, lvn_cfg, dse_cfg, lvn_log, dse_log>>

\* LiveVregs live_vregs(hl_cfg)
ConstructLiveVregs ==
  /\ props = "HighLevel"
  /\ cfg # NullPtr
  /\ df.m_cfg = NullPtr
  /\ df' = NewDataflow(W, cfg)
  /\ UNCHANGED <<pc, props, iseq, W, cfg, flat, lvn_cfg, dse_cfg, lvn_log, dse_log>>

\* live_vregs.execute()
Execute ==
  /\ df.m_cfg # NullPtr
  /\ df.executes < MaxExecutes
  /\ df' = execute(W.heap, W.graphs[df.m_cfg], df)
  /\ UNCHANGED <<pc, props, iseq, W, cfg, flat, lvn_cfg, dse_cfg, lvn_log, dse_log>>

Next == Build \/ Flatten \/ ConstructLiveVregs \/ Execute

Spec == Init /\ [][Next]_vars

----------------------------------------------------------------------------
(* HighLevelOpt::optimize on the code of small functions                   *)

VREG_RETVAL == 0

VREG_FIRST_LOCAL == 10

\* the functions use this many local registers, from VREG_FIRST_LOCAL on
NumOptRegs == 5

OptRegs == VREG_FIRST_LOCAL..(VREG_FIRST_LOCAL + NumOptRegs - 1)

\* the sequence of the instructions inss, the first one labelled first_label
Code(first_label, inss) ==
  MakeSeq(NewInstructionSequence,
          [i \in 1..Len(inss) |-> [label |-> IF i = 1 THEN first_label ELSE NoLabel,
                                   ins |-> inss[i]]],
          NoLabel)

\* return x: the value is moved to vr0, the ret is the function's last instruction
ReturnOf(x) == <<Ins2("HINS_mov_l", Vreg(VREG_RETVAL), Vreg(x)), Ins0("HINS_ret")>>

\* op t1, a, b; (one instruction or none); op t2, a, b; return t2
RedundantOps ==
  LET t1 == VREG_FIRST_LOCAL
      t2 == VREG_FIRST_LOCAL + 1
      r1 == VREG_FIRST_LOCAL + 2
      r2 == VREG_FIRST_LOCAL + 3
      v == VREG_FIRST_LOCAL + 4
      sources == {Vreg(r1), Vreg(r2), Imm(1)}
      between == {<<>>, <<Ins0("HINS_nop")>>}
                 \cup {<<Ins2("HINS_mov_l", VregMem(r), Vreg(v))>> : r \in {r1, r2}}
                 \cup {<<Ins2("HINS_mov_l", Vreg(r), Imm(7))>> : r \in {r1, v}}
  IN {Code(NoLabel, <<Ins3(op, Vreg(t1), a, b)>> \o x \o <<Ins3(op, Vreg(t2), a, b)>>
                    \o ReturnOf(t2)) :
        op \in {"HINS_add_l", "HINS_sub_l"}, a \in sources, b \in sources, x \in between}

\* x = 5; x = 6; return x
DeadStores ==
  {Code(NoLabel, <<Ins2("HINS_mov_l", Vreg(x), Imm(5)), Ins2("HINS_mov_l", Vreg(x), Imm(6))>>
                 \o ReturnOf(x)) : x \in OptRegs}

\* L0: t1 = 1 + 2; t2 = 1 + 2; x = t1; y = t2; return x
Scenario(t1, t2, x, y) ==
  Code("L0", <<Ins3("HINS_add_l", Vreg(t1), Imm(1), Imm(2)),
               Ins3("HINS_add_l", Vreg(t2), Imm(1), Imm(2)),
               Ins2("HINS_mov_l", Vreg(x), Vreg(t1)),
               Ins2("HINS_mov_l", Vreg(y), Vreg(t2))>> \o ReturnOf(x))

Scenarios ==
  {Scenario(r[1], r[2], r[3], r[4]) :
     r \in {q \in [1..4 -> OptRegs] : \A i, j \in 1..4 : i # j => q[i] # q[j]}}

\* t = 1; do { t2 = t + 1; u = t2; t = u; } while (t); return t2
Loop(t, t2, u) ==
  MakeSeq(NewInstructionSequence,
          <<[label |-> NoLabel, ins |-> Ins2("HINS_mov_l", Vreg(t), Imm(1))],
            [label |-> "L1", ins |-> Ins3("HINS_add_l", Vreg(t2), Vreg(t), Imm(1))],
            [label |-> NoLabel, ins |-> Ins2("HINS_mov_l", Vreg(u), Vreg(t2))],
            [label |-> NoLabel, ins |-> Ins2("HINS_mov_l", Vreg(t), Vreg(u))],
            [label |-> NoLabel, ins |-> Ins2("HINS_cjmp_t", Vreg(t), Label("L1"))],
            [label |-> NoLabel, ins |-> Ins2("HINS_mov_l", Vreg(VREG_RETVAL), Vreg(t2))],
            [label |-> NoLabel, ins |-> Ins0("HINS_ret")]>>,
          NoLabel)

Loops ==
  {Loop(r[1], r[2], r[3]) :
     r \in {q \in [1..3 -> OptRegs] : \A i, j \in 1..3 : i # j => q[i] # q[j]}}

\* dst = 5; return x: dst is a register, the memory a register points to, or a
\* field of it; the register of dst is an argument register, the first local
\* or a later local
Stores ==
  {Code(NoLabel, <<Ins2("HINS_mov_l", dst, Imm(5))>> \o ReturnOf(x)) :
     dst \in UNION {{Vreg(r), VregMem(r), VregMemOff(r, 8)} :
                      r \in {1, VREG_FIRST_LOCAL, VREG_FIRST_LOCAL + 1}},
     x \in {VREG_FIRST_LOCAL + 1, VREG_FIRST_LOCAL + 2}}

\* p = p; p = *p; *p = p; each followed by return p
PointerMoves ==
  UNION {{Code(NoLabel, <<Ins2("HINS_mov_q", m[1], m[2])>> \o ReturnOf(p)) :
            m \in {<<Vreg(p), Vreg(p)>>, <<Vreg(p), VregMem(p)>>, <<VregMem(p), Vreg(p)>>}} :
         p \in {VREG_FIRST_LOCAL + 1, VREG_FIRST_LOCAL + 2}}

\* t1 = a op b; a = a op b; return a
Accumulations ==
  LET t1 == VREG_FIRST_LOCAL
      a == VREG_FIRST_LOCAL + 2
      r2 == VREG_FIRST_LOCAL + 3
  IN {Code(NoLabel, <<Ins3(op, Vreg(t1), Vreg(a), b), Ins3(op, Vreg(a), Vreg(a), b)>>
                    \o ReturnOf(a)) :
        op \in {"HINS_add_l", "HINS_sub_l"}, b \in {Vreg(r2), Imm(1)}}

\* t1 = a op b; (one instruction or none); t2 = b op a; return t2
SwappedOps ==
  LET t1 == VREG_FIRST_LOCAL + 1
      t2 == VREG_FIRST_LOCAL + 2
      r1 == VREG_FIRST_LOCAL + 3
      r2 == VREG_FIRST_LOCAL + 4
      v == VREG_FIRST_LOCAL
      sources == {Vreg(r1), Vreg(r2), Imm(1)}
      between == {<<>>, <<Ins0("HINS_nop")>>, <<Ins2("HINS_mov_l", VregMem(r1), Vreg(v))>>}
  IN {Code(NoLabel, <<Ins3(op, Vreg(t1), a, b)>> \o x \o <<Ins3(op, Vreg(t2), b, a)>>
                    \o ReturnOf(t2)) :
        op \in {"HINS_add_l", "HINS_mul_q", "HINS_sub_l"}, a \in sources, b \in sources,
        x \in between}

\* x = 1; if (c) return; for (;;) body: the loop has no way out; its body
\* reads x, or counts x up
ExitlessLoop(c, body) ==
  MakeSeq(NewInstructionSequence,
          <<[label |-> NoLabel, ins |-> Ins2("HINS_mov_l", Vreg(VREG_FIRST_LOCAL + 1), Imm(1))],
            [label |-> NoLabel, ins |-> Ins2("HINS_cjmp_t", Vreg(c), Label("L2"))],
            [label |-> "L1", ins |-> body],
            [label |-> NoLabel, ins |-> Ins1("HINS_jmp", Label("L1"))],
            [label |-> "L2", ins |-> Ins0("HINS_ret")]>>,
          NoLabel)

ExitlessLoops ==
  LET x == VREG_FIRST_LOCAL + 1
  IN {ExitlessLoop(c, body) :
        c \in {1, VREG_FIRST_LOCAL + 2},
        body \in {Ins2("HINS_mov_l", Vreg(VREG_RETVAL), Vreg(x)),
                  Ins2("HINS_mov_l", VregMem(VREG_FIRST_LOCAL + 3), Vreg(x)),
                  Ins3("HINS_add_l", Vreg(x), Vreg(x), Imm(1))}}

\* t = u; if (!c) vr0 = t; return: the copy and its use are in two blocks
CopyThenBranch(t, u, c) ==
  MakeSeq(NewInstructionSequence,
          <<[label |-> NoLabel, ins |-> Ins2("HINS_mov_l", Vreg(t), Vreg(u))],
            [label |-> NoLabel, ins |-> Ins2("HINS_cjmp_t", Vreg(c), Label("L2"))],
            [label |-> NoLabel, ins |-> Ins2("HINS_mov_l", Vreg(VREG_RETVAL), Vreg(t))],
            [label |-> "L2", ins |-> Ins0("HINS_ret")]>>,
          NoLabel)

CopiesThenBranches ==
  {CopyThenBranch(r[1], r[2], r[3]) :
     r \in {q \in [1..3 -> OptRegs] : q[1] # q[2]}}

OptInputs ==
  RedundantOps \cup DeadStores \cup Scenarios \cup Loops \cup Stores \cup PointerMoves
    \cup Accumulations \cup SwappedOps \cup ExitlessLoops \cup CopiesThenBranches

\* what the unassigned operand_value_number of LVN may hold
GarbageVals == {0, 1}

InitOpt ==
  /\ pc = "start"
  /\ props = "HighLevel"
  /\ iseq \in OptInputs
  /\ W = EmptyWorld
  /\ cfg = NullPtr
  /\ flat = NoSeq
  /\ df = NoDataflow
  /\ lvn_cfg = NullPtr
  /\ dse_cfg = NullPtr
  /\ lvn_log = <<>>
  /\ dse_log = <<>>

\* LVN lvn(hl_cfg); hl_cfg = lvn.transform_cfg()
Lvn ==
  /\ pc = "built"
  /\ \E garbage \in GarbageVals :
       \E T \in {LvnBlocks(W.heap, W.graphs[cfg].m_basic_blocks, NewLVN, garbage, EmptyMap)} :
          \E w1 \in {transform_cfg(W, cfg, [b \in DOMAIN T |-> T[b].new_bb])} :
             /\ W' = w1
             /\ lvn_cfg' = w1.ret
             /\ lvn_log' = [b \in DOMAIN T |-> T[b].log]
             /\ pc' = IF w1.err = "" THEN "lvn" ELSE "failed"
  /\ df' = execute(W.heap, W.graphs[cfg], NewDataflow(W, cfg))
  /\ UNCHANGED <<props, iseq, cfg, flat, dse_cfg, dse_log>>

\* DSE dse(hl_cfg); hl_cfg = dse.transform_cfg()
Dse ==
  /\ pc = "lvn"
  /\ \E d \in {execute(W.heap, W.graphs[lvn_cfg], NewDataflow(W, lvn_cfg))} :
       \E T \in {[b \in SeqRange(W.graphs[lvn_cfg].m_basic_blocks) |->
                    DSE_transform_basic_block(W.heap, d, b)]} :
          \E w1 \in {transform_cfg(W, lvn_cfg, [b \in DOMAIN T |-> T[b].new_bb])} :
             /\ W' = w1
             /\ dse_cfg' = w1.ret
             /\ dse_log' = [b \in DOMAIN T |-> T[b].log]
             /\ df' = d
             /\ pc' = IF w1.err = "" THEN "dse" ELSE "failed"
  /\ UNCHANGED <<props, iseq, cfg, flat, lvn_cfg, lvn_log>>

\* hl_iseq = hl_cfg->create_instruction_sequence()
Emit ==
  /\ pc = "dse"
  /\ \E keys \in (IF can_use_original_block_order(W.heap, W.graphs[dse_cfg])
                    THEN {<<>>} ELSE KeyOrders(DOMAIN W.graphs[dse_cfg].m_outgoing_edges)) :
        flat' = create_instruction_sequence(W.heap, W.graphs[dse_cfg], keys)
  /\ pc' = "done"
  /\ UNCHANGED <<props, iseq, W, cfg, df, lvn_cfg, dse_cfg, lvn_log, dse_log>>

NextOpt == Build \/ Lvn \/ Dse \/ Emit

SpecOpt == InitOpt /\ [][NextOpt]_vars

----------------------------------------------------------------------------
(* The passes of HighLevelOpt::optimize run on hl_cfg any number of times   *)
(* in any order: each pass replaces hl_cfg by the graph its transform_cfg() *)
(* returns.  Graph k + 1 of the world is the transform of graph k.          *)

\* passes run on one function
MaxPasses == 3

\* if (c) goto L2; goto L1; L1: x = 1; L2: return: the block of L1 holds one
\* dead store and is followed by the labelled block of L2
EmptiedBlock(c, x) ==
  MakeSeq(NewInstructionSequence,
          <<[label |-> NoLabel, ins |-> Ins2("HINS_cjmp_t", Vreg(c), Label("L2"))],
            [label |-> NoLabel, ins |-> Ins1("HINS_jmp", Label("L1"))],
            [label |-> "L1", ins |-> Ins2("HINS_mov_l", Vreg(x), Imm(1))],
            [label |-> "L2", ins |-> Ins0("HINS_ret")]>>,
          NoLabel)

EmptiedBlocks == {EmptiedBlock(r[1], r[2]) : r \in OptRegs \X OptRegs}

PassInputs == Inputs("HighLevel") \cup Loops \cup DeadStores \cup EmptiedBlocks

InitPasses ==
  /\ pc = "start"
  /\ props = "HighLevel"
  /\ iseq \in PassInputs
  /\ W = EmptyWorld
  /\ cfg = NullPtr
  /\ flat = NoSeq
  /\ df = NoDataflow
  /\ lvn_cfg = NullPtr
  /\ dse_cfg = NullPtr
  /\ lvn_log = <<>>
  /\ dse_log = <<>>

\* hl_cfg = opt.transform_cfg()
PassReturn(w1) ==
  /\ W' = w1
  /\ cfg' = IF w1.err = "" THEN w1.ret ELSE cfg
  /\ pc' = IF w1.err = "" THEN "built" ELSE "failed"
  /\ UNCHANGED <<props, iseq, flat, df, lvn_cfg, dse_cfg, lvn_log, dse_log>>

\* LVN lvn(hl_cfg); hl_cfg = lvn.transform_cfg()
LvnPass ==
  /\ pc = "built"
  /\ Len(W.graphs) <= MaxPasses
  /\ \E garbage \in GarbageVals :
       \E T \in {LvnBlocks(W.heap, W.graphs[cfg].m_basic_blocks, NewLVN, garbage, EmptyMap)} :
          PassReturn(transform_cfg(W, cfg, [b \in DOMAIN T |-> T[b].new_bb]))

\* DSE dse(hl_cfg); hl_cfg = dse.transform_cfg()
DsePass ==
  /\ pc = "built"
  /\ Len(W.graphs) <= MaxPasses
  /\ \E d \in {execute(W.heap, W.graphs[cfg], NewDataflow(W, cfg))} :
       PassReturn(transform_cfg(W, cfg,
                    [b \in SeqRange(W.graphs[cfg].m_basic_blocks) |->
                       DSE_transform_basic_block(W.heap, d, b).new_bb]))

NextPasses == Build \/ LvnPass \/ DsePass \/ Flatten

SpecPasses == InitPasses /\ [][NextPasses]_vars

----------------------------------------------------------------------------
(* Dataflow<LiveVregsAnalysis>::execute, one action per turn of its        *)
(* while (!done) loop                                                      *)

InitExecute ==
  /\ pc = "start"
  /\ props = "HighLevel"
  /\ iseq \in PassInputs
  /\ W = EmptyWorld
  /\ cfg = NullPtr
  /\ flat = NoSeq
  /\ df = NoDataflow
  /\ lvn_cfg = NullPtr
  /\ dse_cfg = NullPtr
  /\ lvn_log = <<>>
  /\ dse_log = <<>>

\* execute() is entered: compute_iter_order(), done = false
ExecuteBegin ==
  /\ pc = "built"
  /\ df.m_cfg # NullPtr
  /\ df.executes < MaxExecutes
  /\ df' = compute_iter_order(W.heap, W.graphs[df.m_cfg], df)
  /\ pc' = "executing"
  /\ UNCHANGED <<props, iseq, W, cfg, flat, lvn_cfg, dse_cfg, lvn_log, dse_log>>

\* one turn of while (!done): change = false, the for loop over m_iter_order,
\* then done = true when nothing changed, which ends execute()
ExecutePass ==
  /\ pc = "executing"
  /\ \E P \in {PassFrom(W.heap, W.graphs[df.m_cfg], [d |-> df, change |-> FALSE], 1)} :
        /\ df' = IF P.change THEN P.d ELSE [P.d EXCEPT !.executes = @ + 1]
        /\ pc' = IF P.change THEN "executing" ELSE "built"
  /\ UNCHANGED <<props, iseq, W, cfg, flat, lvn_cfg, dse_cfg, lvn_log, dse_log>>

NextExecute == Build \/ ConstructLiveVregs \/ ExecuteBegin \/ ExecutePass

\* the thread that called execute() keeps running its loop
SpecExecute == InitExecute /\ [][NextExecute]_vars /\ WF_vars(ExecutePass)

----------------------------------------------------------------------------
(* A client of the ControlFlowGraph interface: any sequence of calls of    *)
(* create_basic_block, adopt_basic_block and create_edge on one graph; a   *)
(* failed assert aborts the program                                        *)

\* InstructionSequence objects the client allocates
MaxBlocks == 3

\* calls of adopt_basic_block and create_basic_block on the graph
MaxAdopts == 3

\* calls of create_edge that succeed
MaxEdges == 3

BasicBlockKinds == {"BASICBLOCK_ENTRY", "BASICBLOCK_EXIT", "BASICBLOCK_INTERIOR"}

EdgeKinds == {"EDGE_FALLTHROUGH", "EDGE_BRANCH"}

InitApi ==
  /\ pc = "api"
  /\ props = "HighLevel"
  /\ iseq = NewInstructionSequence
  /\ W = NewControlFlowGraph(EmptyWorld)
  /\ cfg = 1
  /\ flat = NoSeq
  /\ df = NoDataflow
  /\ lvn_cfg = NullPtr
  /\ dse_cfg = NullPtr
  /\ lvn_log = <<>>
  /\ dse_log = <<>>

\* the outcome of a call: the program goes on only when no assert failed
ApiReturn(w1) ==
  /\ W' = w1
  /\ pc' = IF w1.err = "" THEN "api" ELSE "failed"
  /\ UNCHANGED <<props, iseq, cfg, flat, df, lvn_cfg, dse_cfg, lvn_log, dse_log>>

\* bb = new InstructionSequence(kind, code_order, label), not yet in a graph
ApiNewBlock ==
  /\ pc = "api"
  /\ Len(W.heap) < MaxBlocks
  /\ \E kind \in BasicBlockKinds :
        ApiReturn(AllocBlock(W, NewBasicBlock(kind, Len(W.heap), NoLabel)))

\* cfg->create_basic_block(kind, code_order, label)
ApiCreateBasicBlock ==
  /\ pc = "api"
  /\ Len(W.heap) < MaxBlocks
  /\ get_num_blocks(W, cfg) < MaxAdopts
  /\ \E kind \in BasicBlockKinds :
        ApiReturn(create_basic_block(W, cfg, kind, Len(W.heap), NoLabel))

\* cfg->adopt_basic_block(bb), of any block the client holds
ApiAdoptBasicBlock ==
  /\ pc = "api"
  /\ get_num_blocks(W, cfg) < MaxAdopts
  /\ \E bb \in DOMAIN W.heap : ApiReturn(adopt_basic_block(W, cfg, bb))

\* cfg->create_edge(source, target, kind), of any blocks the client holds
ApiCreateEdge ==
  /\ pc = "api"
  /\ W.graphs[cfg].m_num_edges < MaxEdges
  /\ \E source \in DOMAIN W.heap, target \in DOMAIN W.heap, kind \in EdgeKinds :
        ApiReturn(create_edge(W, cfg, source, target, kind))

NextApi == ApiNewBlock \/ ApiCreateBasicBlock \/ ApiAdoptBasicBlock \/ ApiCreateEdge

SpecApi == InitApi /\ [][NextApi]_vars

----------------------------------------------------------------------------
(* create_instruction_sequence() on graphs whose control flow a client     *)
(* has laid out freely through create_basic_block and create_edge          *)

\* a wired graph has at most this many INTERIOR blocks
MaxInterior == 2

RcLabel(i) == <<"L1", "L2", "L3", "L4">>[i]

\* the instructions of the i-th INTERIOR block: no two blocks share one
RcCode(i) ==
  (IF i = 1 THEN <<[label |-> NoLabel, ins |-> Ins0("HINS_nop")]>> ELSE <<>>)
  \o <<[label |-> NoLabel, ins |-> Ins2("HINS_mov_l", Vreg(10 + i), Imm(i))]>>

\* create_basic_block for the INTERIOR blocks i..n, each then filled
RECURSIVE RcInteriors(_, _, _, _, _)
RcInteriors(w, g, i, n, labelled) ==
  IF i > n THEN w
  ELSE The({RcInteriors([w1 EXCEPT !.heap[w1.ret] = AppendAll(@, RcCode(i))],
                        g, i + 1, n, labelled) :
              w1 \in {create_basic_block(w, g, "BASICBLOCK_INTERIOR", i - 1,
                                         IF i \in labelled THEN RcLabel(i) ELSE NoLabel)}})

\* the lists of outgoing edges one block may get: at most one edge of each
\* kind, to different blocks; blocks are named by their place in
\* m_basic_blocks (1 is ENTRY, 2 is EXIT)
OutLists(n) ==
  LET E == [target : 2..(n + 2), kind : EdgeKinds]
  IN {<<>>} \cup {<<e>> : e \in E}
     \cup {<<q[1], q[2]>> : q \in {r \in E \X E : r[1].target # r[2].target
                                                   /\ r[1].kind # r[2].kind}}

Wirings(n) == [{1} \cup 3..(n + 2) -> OutLists(n)]

RECURSIVE RcEdges(_, _, _, _)
RcEdges(w, g, src, edges) ==
  IF edges = <<>> THEN w
  ELSE The({RcEdges(w1, g, src, Tail(edges)) :
              w1 \in {create_edge(w, g, w.graphs[g].m_basic_blocks[src],
                                  w.graphs[g].m_basic_blocks[Head(edges).target],
                                  Head(edges).kind)}})

\* the edges are created block by block, as transform_cfg() does
RECURSIVE RcWire(_, _, _, _)
RcWire(w, g, conf, src) ==
  IF src > Len(w.graphs[g].m_basic_blocks) THEN w
  ELSE IF src = 2 THEN RcWire(w, g, conf, src + 1)
  ELSE The({RcWire(w1, g, conf, src + 1) : w1 \in {RcEdges(w, g, src, conf[src])}})

\* the world with the wired graph; ret is the graph
RcGraph(n, labelled, conf) ==
  The({The({The({The({[RcWire(w3, w0.ret, conf, 1) EXCEPT !.ret = w0.ret] :
                        w3 \in {RcInteriors(w2, w0.ret, 1, n, labelled)}}) :
                   w2 \in {create_basic_block(w1, w0.ret, "BASICBLOCK_EXIT", 2000000, NoLabel)}}) :
              w1 \in {create_basic_block(w0, w0.ret, "BASICBLOCK_ENTRY", 0 - 1, NoLabel)}}) :
         w0 \in {NewControlFlowGraph(EmptyWorld)}})

InitReconstruct ==
  /\ pc = "start"
  /\ props = "HighLevel"
  /\ iseq = NewInstructionSequence
  /\ W = EmptyWorld
  /\ cfg = NullPtr
  /\ flat = NoSeq
  /\ df = NoDataflow
  /\ lvn_cfg = NullPtr
  /\ dse_cfg = NullPtr
  /\ lvn_log = <<>>
  /\ dse_log = <<>>

\* a client makes a graph: new ControlFlowGraph(), the blocks, the edges
Wire ==
  /\ pc = "start"
  /\ \E n \in 1..MaxInterior :
       \E labelled \in SUBSET (1..n), conf \in Wirings(n) :
          \E w \in {RcGraph(n, labelled, conf)} :
             /\ W' = w
             /\ cfg' = w.ret
             /\ pc' = IF w.err = "" THEN "built" ELSE "failed"
  /\ UNCHANGED <<props, iseq, flat, df, lvn_cfg, dse_cfg, lvn_log, dse_log>>

NextReconstruct == Wire \/ Flatten

SpecReconstruct == InitReconstruct /\ [][NextReconstruct]_vars

----------------------------------------------------------------------------
(* build() on sequences that end with a label: the code generator has      *)
(* called define_label after the last append                               *)

EndLabelledInputs(p) ==
  {MakeSeq(NewInstructionSequence, r[1], r[2]) :
     r \in {x \in (UNION {[1..n -> [label : Labels \cup {NoLabel}, ins : Universe(p)]] :
                            n \in 1..MaxLen}) \X Labels : UniqueLabels(x[1], x[2])}}

InitEndLabel ==
  /\ pc = "start"
  /\ props \in {"HighLevel", "LowLevel"}
  /\ iseq \in EndLabelledInputs(props)
  /\ W = EmptyWorld
  /\ cfg = NullPtr
  /\ flat = NoSeq
  /\ df = NoDataflow
  /\ lvn_cfg = NullPtr
  /\ dse_cfg = NullPtr
  /\ lvn_log = <<>>
  /\ dse_log = <<>>

NextEndLabel == Build \/ Flatten

SpecEndLabel == InitEndLabel /\ [][NextEndLabel]_vars

----------------------------------------------------------------------------
(* Views of the state used by the properties                               *)

\* the graph built from iseq
BuiltGraph == W.graphs[cfg]

BlocksOf(G) == SeqRange(G.m_basic_blocks)

OutEdges(G, b) == SeqRange(get_outgoing_edges(G, b))

InEdges(G, b) == SeqRange(get_incoming_edges(G, b))

AllOutEdges(G) == UNION {SeqRange(G.m_outgoing_edges[k]) : k \in DOMAIN G.m_outgoing_edges}

AllInEdges(G) == UNION {SeqRange(G.m_incoming_edges[k]) : k \in DOMAIN G.m_incoming_edges}

BlocksOfKind(heap, G, kind) == {b \in BlocksOf(G) : heap[b].m_kind = kind}

RECURSIVE ReachableFrom(_, _)
ReachableFrom(G, S) ==
  LET S1 == S \cup {e.m_target : e \in UNION {OutEdges(G, b) : b \in S}}
  IN IF S1 = S THEN S ELSE ReachableFrom(G, S1)

\* opcodes named literally, independently of the InstructionProperties operators
CallOpcode == IF props = "LowLevel" THEN "MINS_CALL" ELSE "HINS_call"

JmpOpcode == IF props = "LowLevel" THEN "MINS_JMP" ELSE "HINS_jmp"

LastOperandIsLabel(ins) ==
  ins.operands # <<>> /\ ins.operands[Len(ins.operands)].kind = "LABEL"

IsTakenBranch(ins) == LastOperandIsLabel(ins) /\ ins.opcode # CallOpcode

----------------------------------------------------------------------------
(* C1. For every instruction sequence on which build() returns a graph:    *)
(* the graph has exactly one ENTRY block, which has no incoming edge, and  *)
(* exactly one EXIT block, which has no outgoing edge; every INTERIOR      *)
(* block holds at least one instruction; every INTERIOR block is reachable *)
(* from ENTRY along edges.                                                 *)
C1_WellFormed ==
  cfg # NullPtr =>
    LET G == BuiltGraph
        entries == BlocksOfKind(W.heap, G, "BASICBLOCK_ENTRY")
        exits == BlocksOfKind(W.heap, G, "BASICBLOCK_EXIT")
    IN /\ Cardinality(entries) = 1
       /\ Cardinality(exits) = 1
       /\ \A b \in entries : InEdges(G, b) = {} /\ \A e \in AllOutEdges(G) : e.m_target # b
       /\ \A b \in exits : OutEdges(G, b) = {} /\ \A e \in AllInEdges(G) : e.m_source # b
       /\ \A b \in BlocksOfKind(W.heap, G, "BASICBLOCK_INTERIOR") :
             /\ Len(W.heap[b].m_instructions) >= 1
             /\ b \in ReachableFrom(G, entries)

\* a graph with a branch edge and at least two interior blocks has been built
C1_Witness ==
  /\ pc = "built"
  /\ Cardinality(BlocksOfKind(W.heap, BuiltGraph, "BASICBLOCK_INTERIOR")) >= 2
  /\ \E e \in AllOutEdges(BuiltGraph) : e.m_kind = "EDGE_BRANCH"

----------------------------------------------------------------------------
(* Control flow of the input sequence, instruction by instruction          *)

InsAt(i) == iseq.m_instructions[i + 1].ins

\* the index of the instruction that carries label l
LabelIndex(l) == CHOOSE i \in 0..(Len(iseq.m_instructions) - 1) : iseq.m_instructions[i + 1].label = l

BranchLabelOf(ins) == ins.operands[Len(ins.operands)].label

SuccIdx(i) ==
  (IF InsAt(i).opcode # JmpOpcode /\ i + 1 < Len(iseq.m_instructions) THEN {i + 1} ELSE {})
  \cup (IF IsTakenBranch(InsAt(i)) THEN {LabelIndex(BranchLabelOf(InsAt(i)))} ELSE {})

RECURSIVE ReachIdxFrom(_)
ReachIdxFrom(S) ==
  LET S1 == S \cup UNION {SuccIdx(i) : i \in S}
  IN IF S1 = S THEN S ELSE ReachIdxFrom(S1)

\* the instructions control can reach from the first one
ReachIdx == IF iseq.m_instructions = <<>> THEN {} ELSE ReachIdxFrom({0})

\* the labels some reachable branch jumps to
TargetedLabels == {BranchLabelOf(InsAt(i)) : i \in {j \in ReachIdx : IsTakenBranch(InsAt(j))}}

RECURSIVE ReachableSlots(_)
ReachableSlots(i) ==
  IF i >= Len(iseq.m_instructions) THEN <<>>
  ELSE (IF i \in ReachIdx
          THEN <<[label |-> IF iseq.m_instructions[i + 1].label \in TargetedLabels
                              THEN iseq.m_instructions[i + 1].label ELSE NoLabel,
                  ins |-> InsAt(i)]>>
          ELSE <<>>) \o ReachableSlots(i + 1)

----------------------------------------------------------------------------
(* C2 as stated. Round trip: create_instruction_sequence() right after     *)
(* build() yields the instructions of seq, in order, with the same labels  *)
(* on the same instructions.                                               *)
C2_RoundTripExact ==
  pc = "flat" => flat.err = "" /\ flat.seq.m_instructions = iseq.m_instructions

(* C2 as amended. The round trip yields the instructions of seq that are   *)
(* reachable from its first instruction by fall-through and branches, in   *)
(* their order, each carrying its label exactly when a reachable branch    *)
(* targets that label; it is seq itself when every instruction is          *)
(* reachable and every label is targeted.                                  *)
C2_RoundTripReachable ==
  pc = "flat" =>
    /\ flat.err = ""
    /\ flat.seq.m_instructions = ReachableSlots(0)
    /\ (/\ ReachIdx = 0..(Len(iseq.m_instructions) - 1)
        /\ \A i \in 1..Len(iseq.m_instructions) :
              iseq.m_instructions[i].label \in TargetedLabels \cup {NoLabel})
       => flat.seq.m_instructions = iseq.m_instructions

\* a round trip of a sequence with a loop in which nothing is lost
C2_Witness ==
  /\ pc = "flat"
  /\ Len(iseq.m_instructions) = MaxLen
  /\ flat.seq.m_instructions = iseq.m_instructions
  /\ \E i \in 1..Len(iseq.m_instructions) : iseq.m_instructions[i].label # NoLabel
  /\ \E e \in AllOutEdges(BuiltGraph) :
        e.m_kind = "EDGE_BRANCH"
        /\ W.heap[e.m_target].m_code_order <= W.heap[e.m_source].m_code_order

----------------------------------------------------------------------------
(* C8. Edge counts in a built graph: an INTERIOR block has one outgoing    *)
(* BRANCH edge when its last instruction is a branch that is not a call    *)
(* (its last operand is a label) and none otherwise, and one outgoing      *)
(* FALLTHROUGH edge when its last instruction is not an unconditional jump *)
(* and none otherwise; the BRANCH edge leads to the block that starts at   *)
(* the instruction carrying the target label, the FALLTHROUGH edge to the  *)
(* block that starts at the next instruction (EXIT at the end).            *)
C8_EdgeCounts ==
  cfg # NullPtr =>
    LET G == BuiltGraph
    IN \A b \in BlocksOfKind(W.heap, G, "BASICBLOCK_INTERIOR") :
         LET blk == W.heap[b]
             last == blk.m_instructions[Len(blk.m_instructions)].ins
             branches == {e \in OutEdges(G, b) : e.m_kind = "EDGE_BRANCH"}
             falls == {e \in OutEdges(G, b) : e.m_kind = "EDGE_FALLTHROUGH"}
             next == blk.m_code_order + Len(blk.m_instructions)
         IN /\ OutEdges(G, b) = branches \cup falls
            /\ Len(get_outgoing_edges(G, b)) = Cardinality(OutEdges(G, b))
            /\ Cardinality(branches) = IF IsTakenBranch(last) THEN 1 ELSE 0
            /\ Cardinality(falls) = IF last.opcode # JmpOpcode THEN 1 ELSE 0
            /\ \A e \in branches :
                  /\ W.heap[e.m_target].m_kind = "BASICBLOCK_INTERIOR"
                  /\ W.heap[e.m_target].m_code_order = LabelIndex(BranchLabelOf(last))
            /\ \A e \in falls :
                  IF next = Len(iseq.m_instructions)
                    THEN W.heap[e.m_target].m_kind = "BASICBLOCK_EXIT"
                    ELSE /\ W.heap[e.m_target].m_kind = "BASICBLOCK_INTERIOR"
                         /\ W.heap[e.m_target].m_code_order = next

\* a block ending in a conditional branch with both of its edges, and a block
\* ending in a call
C8_Witness ==
  /\ pc = "built"
  /\ \E b \in BlocksOfKind(W.heap, BuiltGraph, "BASICBLOCK_INTERIOR") :
        /\ get_last_instruction(W.heap[b]).opcode \in {"HINS_cjmp_t", "MINS_JNE"}
        /\ Cardinality(OutEdges(BuiltGraph, b)) = 2
  /\ \E b \in BlocksOfKind(W.heap, BuiltGraph, "BASICBLOCK_INTERIOR") :
        get_last_instruction(W.heap[b]).opcode \in {"HINS_call", "MINS_CALL"}

----------------------------------------------------------------------------
(* The two edge indexes of a graph, entry by entry                         *)

\* the places <<block, position>> of index m (m_outgoing_edges or
\* m_incoming_edges) that hold the edge allocated as number eid
PlacesOf(m, eid) ==
  {pl \in UNION {{<<k, j>> : j \in 1..Len(m[k])} : k \in DOMAIN m} :
     m[pl[1]][pl[2]].eid = eid}

Triple(e) == <<e.m_source, e.m_target, e.m_kind>>

(* C9. After any sequence of successful create_basic_block,                *)
(* adopt_basic_block and create_edge calls on a ControlFlowGraph: no two   *)
(* edges share the same (source, target, kind) triple; every edge is       *)
(* listed exactly once in the outgoing list of its source, and in no other *)
(* outgoing list, and exactly once in the incoming list of its target, and *)
(* in no other incoming list; the two indexes hold the same set of edges.  *)
C9_EdgeIndexes ==
  pc = "api" =>
    LET G == W.graphs[cfg]
    IN /\ \A e1, e2 \in AllOutEdges(G) \cup AllInEdges(G) :
             Triple(e1) = Triple(e2) => e1.eid = e2.eid
       /\ \A eid \in 1..G.m_num_edges :
             /\ Cardinality(PlacesOf(G.m_outgoing_edges, eid)) = 1
             /\ Cardinality(PlacesOf(G.m_incoming_edges, eid)) = 1
             /\ \A pl \in PlacesOf(G.m_outgoing_edges, eid) :
                   G.m_outgoing_edges[pl[1]][pl[2]].m_source = pl[1]
             /\ \A pl \in PlacesOf(G.m_incoming_edges, eid) :
                   G.m_incoming_edges[pl[1]][pl[2]].m_target = pl[1]
       /\ AllOutEdges(G) = AllInEdges(G)
       /\ Cardinality(AllOutEdges(G)) = G.m_num_edges

\* after successful calls only: a block adopted twice that is the source of
\* two edges and the target of two edges, one of them from itself
C9_Witness ==
  /\ pc = "api"
  /\ \E b \in DOMAIN W.heap :
        /\ Cardinality({i \in 1..get_num_blocks(W, cfg) :
                          W.graphs[cfg].m_basic_blocks[i] = b}) = 2
        /\ Len(get_outgoing_edges(W.graphs[cfg], b)) = 2
        /\ Len(get_incoming_edges(W.graphs[cfg], b)) = 2
        /\ lookup_edge(W.graphs[cfg], b, b)

----------------------------------------------------------------------------
(* Views of the dataflow object                                            *)

AnalysedGraph == W.graphs[df.m_cfg]

\* the fact stored for block b at its logical beginning (for this backward
\* analysis: the end of the block) and at its logical end
LogicalBeginFact(b) == df.m_endfacts[W.heap[b].m_block_id + 1]

LogicalEndFact(b) == df.m_beginfacts[W.heap[b].m_block_id + 1]

\* the logical predecessors of b in a backward analysis: the targets of its
\* outgoing edges
LogicalPredecessors(b) == {e.m_target : e \in OutEdges(AnalysedGraph, b)}

----------------------------------------------------------------------------
----------------------------------------------------------------------------
(* C4. A second call of execute() on the same Dataflow object, right after *)
(* the first one returned, leaves the begin fact and the end fact of every *)
(* block as the first call left them.                                      *)
C4_SecondExecuteKeepsFacts ==
  [][df.executes = 1 /\ df'.executes = 2 =>
       /\ df'.m_beginfacts = df.m_beginfacts
       /\ df'.m_endfacts = df.m_endfacts]_vars

\* execute() has run twice on a graph with a loop and nonempty facts; the
\* second run went over the blocks in the lengthened iteration order
C4_Witness ==
  /\ df.executes = 2
  /\ Len(df.m_iter_order) > get_num_blocks(W, df.m_cfg)
  /\ \E b \in BlocksOf(AnalysedGraph) : LogicalEndFact(b) # {}
  /\ \E e \in AllOutEdges(AnalysedGraph) :
        W.heap[e.m_target].m_code_order <= W.heap[e.m_source].m_code_order

----------------------------------------------------------------------------
(* Views of the optimizer's graphs                                         *)

InstructionsOf(b) == [i \in 1..Len(W.heap[b].m_instructions) |-> W.heap[b].m_instructions[i].ins]

InteriorBlocks(g) == BlocksOfKind(W.heap, W.graphs[g], "BASICBLOCK_INTERIOR")

\* the block that transform_cfg made of block b of graph g, in graph g2
CounterpartIn(g2, g, b) ==
  W.graphs[g2].m_basic_blocks[CHOOSE i \in 1..Len(W.graphs[g].m_basic_blocks) :
                                 W.graphs[g].m_basic_blocks[i] = b]

MovOpcodes == {"HINS_mov_b", "HINS_mov_w", "HINS_mov_l", "HINS_mov_q"}

NoDestOpcodes ==
  {"HINS_nop", "HINS_ret", "HINS_jmp", "HINS_enter", "HINS_leave", "HINS_cjmp_t", "HINS_cjmp_f"}

\* instruction x writes virtual register r
Writes(x, r) ==
  IF x.opcode = "HINS_call" THEN r = 0
  ELSE /\ x.opcode \notin NoDestOpcodes
       /\ x.operands # <<>>
       /\ x.operands[1].kind = "VREG"
       /\ x.operands[1].basereg = r

\* the registers the source operands of x mention
SourceRegs(x) == {x.operands[m].basereg : m \in 2..Len(x.operands)} \ {NoReg}

\* x is op t1, a, b and y is op t2, a, b: same opcode, same sources, results
\* in two registers that are not among the sources
SameComputation(x, y) ==
  /\ x.opcode = y.opcode
  /\ x.opcode \notin MovOpcodes
  /\ Len(x.operands) = 3 /\ Len(y.operands) = 3
  /\ x.operands[1].kind = "VREG" /\ y.operands[1].kind = "VREG"
  /\ x.operands[2] = y.operands[2] /\ x.operands[3] = y.operands[3]
  /\ x.operands[1].basereg # y.operands[1].basereg
  /\ {x.operands[1].basereg, y.operands[1].basereg} \cap SourceRegs(x) = {}

----------------------------------------------------------------------------
(* C5. LVN redundancy: when a block holds op t1, a, b and later            *)
(* op t2, a, b with the same opcode, and no instruction in between writes  *)
(* a, b or t1, LVN gives the second result the value number of the first,  *)
(* and every later instruction of the block that reads t2 as a source      *)
(* register reads t1 instead in the block LVN produces.                    *)
C5_RedundancyReuse ==
  lvn_cfg # NullPtr =>
    \A blk \in InteriorBlocks(cfg) :
       LET ins == InstructionsOf(blk)
           out == InstructionsOf(CounterpartIn(lvn_cfg, cfg, blk))
           vn == lvn_log[blk]
       IN \A i, j \in 1..Len(ins) :
             (/\ i < j
              /\ SameComputation(ins[i], ins[j])
              /\ \A k \in (i + 1)..(j - 1) :
                    \A r \in SourceRegs(ins[i]) \cup {ins[i].operands[1].basereg} :
                       ~Writes(ins[k], r))
             => /\ vn[j] = vn[i]
                /\ \A k \in (j + 1)..Len(ins) :
                      \A m \in 2..Len(ins[k].operands) :
                         ins[k].operands[m].basereg = ins[j].operands[1].basereg
                           => out[k].operands[m].basereg = ins[i].operands[1].basereg

\* LVN has run on a block with two equal computations and no instruction
\* between them, and the later read of t2 reads t1 in its result
C5_Witness ==
  /\ lvn_cfg # NullPtr
  /\ \E blk \in InteriorBlocks(cfg) :
        LET ins == InstructionsOf(blk)
            out == InstructionsOf(CounterpartIn(lvn_cfg, cfg, blk))
        IN /\ Len(ins) >= 3
           /\ SameComputation(ins[1], ins[2])
           /\ lvn_log[blk][2] = lvn_log[blk][1]
           /\ ins[3].operands[2].basereg = ins[2].operands[1].basereg
           /\ out[3].operands[2].basereg = ins[1].operands[1].basereg

----------------------------------------------------------------------------
(* C6. DSE dead store: for a block x = 5; x = 6; return x, x a local       *)
(* virtual register (numbered from VREG_FIRST_LOCAL), DSE's                *)
(* transform_basic_block removes x = 5 and keeps x = 6 and the return of   *)
(* x, in that order.                                                       *)
C6_DeadStoreRemoved ==
  dse_cfg # NullPtr =>
    \A blk \in InteriorBlocks(lvn_cfg) :
       \A x \in OptRegs :
          InstructionsOf(blk) = <<Ins2("HINS_mov_l", Vreg(x), Imm(5)),
                                  Ins2("HINS_mov_l", Vreg(x), Imm(6)),
                                  Ins2("HINS_mov_l", Vreg(0), Vreg(x)),
                                  Ins0("HINS_ret")>>
          => InstructionsOf(CounterpartIn(dse_cfg, lvn_cfg, blk))
               = <<Ins2("HINS_mov_l", Vreg(x), Imm(6)),
                   Ins2("HINS_mov_l", Vreg(0), Vreg(x)),
                   Ins0("HINS_ret")>>

\* DSE has removed the dead first store of such a block
C6_Witness ==
  /\ dse_cfg # NullPtr
  /\ \E blk \in InteriorBlocks(lvn_cfg) :
        \E x \in OptRegs :
           /\ InstructionsOf(blk) = <<Ins2("HINS_mov_l", Vreg(x), Imm(5)),
                                      Ins2("HINS_mov_l", Vreg(x), Imm(6)),
                                      Ins2("HINS_mov_l", Vreg(0), Vreg(x)),
                                      Ins0("HINS_ret")>>
           /\ dse_log[blk] = <<1, 2, 3>>

----------------------------------------------------------------------------
(* C7. Pipeline scenario: for [L0: t1=1+2, t2=1+2, x=t1, y=t2, ret x]      *)
(* build() gives ENTRY -> B0 -> EXIT with one FALLTHROUGH edge each; LVN   *)
(* gives t2 the value number of t1 and makes y=t2 read t1; DSE on LVN's    *)
(* result removes the y=... instruction and keeps the instructions that    *)
(* produce x (t1=1+2 and x=t1).                                            *)
C7_PipelineScenario ==
  dse_cfg # NullPtr =>
    \A t1, t2, x, y \in OptRegs :
       iseq = Scenario(t1, t2, x, y) /\ Cardinality({t1, t2, x, y}) = 4 =>
         LET G == W.graphs[cfg]
             B0 == CHOOSE b \in InteriorBlocks(cfg) : TRUE
             lvn_out == InstructionsOf(CounterpartIn(lvn_cfg, cfg, B0))
             dse_out == InstructionsOf(CounterpartIn(dse_cfg, cfg, B0))
         IN /\ Cardinality(InteriorBlocks(cfg)) = 1
            /\ {<<e.m_source, e.m_target, e.m_kind>> : e \in AllOutEdges(G)}
                 = {<<G.m_entry, B0, "EDGE_FALLTHROUGH">>, <<B0, G.m_exit, "EDGE_FALLTHROUGH">>}
            /\ lvn_log[B0][2] = lvn_log[B0][1]
            /\ lvn_out[4] = Ins2("HINS_mov_l", Vreg(y), Vreg(t1))
            /\ \A k \in 1..Len(dse_out) : dse_out[k].operands # <<>>
                                            => dse_out[k].operands[1] # Vreg(y)
            /\ \E k \in 1..Len(dse_out) : dse_out[k] = Ins3("HINS_add_l", Vreg(t1), Imm(1), Imm(2))
            /\ \E k \in 1..Len(dse_out) : dse_out[k] = Ins2("HINS_mov_l", Vreg(x), Vreg(t1))

\* the pipeline has run on the scenario and DSE has removed y=...
C7_Witness ==
  /\ pc = "done"
  /\ \E t1, t2, x, y \in OptRegs :
        /\ iseq = Scenario(t1, t2, x, y)
        /\ \A k \in 1..Len(flat.seq.m_instructions) :
              flat.seq.m_instructions[k].ins.operands # <<>>
                => flat.seq.m_instructions[k].ins.operands[1] # Vreg(y)

----------------------------------------------------------------------------
(* C10. transform_cfg(), as LVN and as DSE run it, leaves its input graph  *)
(* as it was: the same blocks with the same ids, kinds, code orders,       *)
(* labels and instructions, and the same edges.                            *)
C10_InputGraphUnchanged ==
  [][\A g \in {cfg, lvn_cfg} :
        (\/ g = cfg /\ pc = "built" /\ pc' = "lvn"
         \/ g = lvn_cfg /\ pc = "lvn" /\ pc' = "dse")
        => /\ W'.graphs[g] = W.graphs[g]
           /\ \A b \in BlocksOf(W.graphs[g]) : W'.heap[b] = W.heap[b]]_vars

\* both transformations have run on a graph with a loop; LVN rewrote an
\* operand and DSE removed an instruction
C10_Witness ==
  /\ pc = "dse"
  /\ \E e \in AllOutEdges(W.graphs[cfg]) : e.m_kind = "EDGE_BRANCH"
  /\ \E b \in InteriorBlocks(cfg) :
        /\ InstructionsOf(CounterpartIn(lvn_cfg, cfg, b)) # InstructionsOf(b)
        /\ Len(InstructionsOf(CounterpartIn(dse_cfg, cfg, b))) < Len(InstructionsOf(b))

----------------------------------------------------------------------------
(* Views of the chain of graphs the passes make                            *)

\* the graphs transform_cfg() has returned: graph k is the transform of k - 1
TransformedGraphs == IF W.err = "" THEN 2..Len(W.graphs) ELSE {}

\* an edge as block ids and kind
EdgeById(e) == <<W.heap[e.m_source].m_block_id, W.heap[e.m_target].m_block_id, e.m_kind>>

\* what get_block_label() answers, stated on the fields
BlockLabelOf(blk) ==
  IF Len(blk.m_instructions) = 0 THEN blk.m_next_label ELSE blk.m_instructions[1].label

(* C11. The graph transform_cfg() returns is structurally equivalent to    *)
(* its input graph: the same number of blocks; the block with id i has the *)
(* kind, the code_order and the label of the original block with id i;     *)
(* and an edge (i, j, kind) exists in the result exactly when it exists in *)
(* the original.                                                           *)
C11_StructurallyEquivalent ==
  \A k \in TransformedGraphs :
     LET G == W.graphs[k - 1]
         R == W.graphs[k]
     IN /\ Len(R.m_basic_blocks) = Len(G.m_basic_blocks)
        /\ \A i \in 1..Len(G.m_basic_blocks) :
              LET o == W.heap[G.m_basic_blocks[i]]
                  n == W.heap[R.m_basic_blocks[i]]
              IN /\ o.m_block_id = i - 1
                 /\ n.m_block_id = i - 1
                 /\ n.m_kind = o.m_kind
                 /\ n.m_code_order = o.m_code_order
                 /\ BlockLabelOf(n) = BlockLabelOf(o)
        /\ {EdgeById(e) : e \in AllOutEdges(R)} = {EdgeById(e) : e \in AllOutEdges(G)}
        /\ {EdgeById(e) : e \in AllInEdges(R)} = {EdgeById(e) : e \in AllOutEdges(R)}
        /\ Cardinality(AllOutEdges(R)) = Cardinality(AllOutEdges(G))

\* DSE has removed the first instruction of a labelled block that keeps others,
\* in a graph with a branch edge
C11_Witness ==
  \E k \in TransformedGraphs :
     /\ \E e \in AllOutEdges(W.graphs[k]) : e.m_kind = "EDGE_BRANCH"
     /\ \E i \in 1..Len(W.graphs[k].m_basic_blocks) :
           LET o == W.heap[W.graphs[k - 1].m_basic_blocks[i]]
               n == W.heap[W.graphs[k].m_basic_blocks[i]]
           IN /\ BlockLabelOf(o) # NoLabel
              /\ Len(n.m_instructions) >= 1
              /\ Len(n.m_instructions) < Len(o.m_instructions)
              /\ n.m_instructions[1].ins # o.m_instructions[1].ins

----------------------------------------------------------------------------
(* C12. For every graph obtained from build() and then transformed by LVN  *)
(* and/or DSE, create_instruction_sequence() completes without a failed    *)
(* assertion and returns a sequence, also when DSE has removed every       *)
(* instruction of a labelled block.                                        *)
C12_FlattenSucceeds ==
  pc = "flat" /\ Len(W.graphs) >= 2 => flat.err = ""

\* create_instruction_sequence() has returned a sequence for a transformed
\* graph in which a labelled INTERIOR block has lost all its instructions
C12_Witness ==
  /\ pc = "flat"
  /\ Len(W.graphs) >= 2
  /\ flat.err = ""
  /\ \E b \in BlocksOfKind(W.heap, W.graphs[cfg], "BASICBLOCK_INTERIOR") :
        W.heap[b].m_instructions = <<>> /\ W.heap[b].m_next_label # NoLabel

----------------------------------------------------------------------------
(* Branches of the input sequence whose label no instruction carries       *)

IsAttached(l) == \E i \in 1..Len(iseq.m_instructions) : iseq.m_instructions[i].label = l

\* successors of instruction i, a branch to a label nobody carries having no
\* target
SuccIdxAttached(i) ==
  (IF InsAt(i).opcode # JmpOpcode /\ i + 1 < Len(iseq.m_instructions) THEN {i + 1} ELSE {})
  \cup (IF IsTakenBranch(InsAt(i)) /\ IsAttached(BranchLabelOf(InsAt(i)))
          THEN {LabelIndex(BranchLabelOf(InsAt(i)))} ELSE {})

RECURSIVE ReachAttachedFrom(_)
ReachAttachedFrom(S) ==
  LET S1 == S \cup UNION {SuccIdxAttached(i) : i \in S}
  IN IF S1 = S THEN S ELSE ReachAttachedFrom(S1)

\* the reachable branches that name a label no instruction carries
UnresolvedBranches ==
  IF iseq.m_instructions = <<>> THEN {}
  ELSE {i \in ReachAttachedFrom({0}) :
          IsTakenBranch(InsAt(i)) /\ ~IsAttached(BranchLabelOf(InsAt(i)))}

(* C13 as stated. If a reachable block of the input sequence ends in a     *)
(* branch whose target label is attached to no instruction, build() stops  *)
(* with the fatal error of get_index_of_labeled_instruction and returns no *)
(* graph.                                                                  *)
C13_UnresolvedIsFatal ==
  pc # "start" /\ UnresolvedBranches # {} =>
    /\ pc = "failed"
    /\ cfg = NullPtr
    /\ W.err = "RuntimeError: no instruction has label"

\* build() has stopped on a branch to a label nobody carries, in a block that
\* a branch from an earlier block leads to
C13_Witness ==
  /\ pc = "failed"
  /\ cfg = NullPtr
  /\ W.err = "RuntimeError: no instruction has label"
  /\ \E i \in UnresolvedBranches : i >= 1 /\ iseq.m_instructions[i + 1].label # NoLabel

----------------------------------------------------------------------------
\* the INTERIOR blocks of graph k that hold no instruction
EmptyInteriorBlocks(k) ==
  {b \in BlocksOfKind(W.heap, W.graphs[k], "BASICBLOCK_INTERIOR") :
     W.heap[b].m_instructions = <<>>}

(* C14. When transform_basic_block returns an empty block for an INTERIOR  *)
(* original block, the adoption of that block by the result graph fails a  *)
(* check: no graph returned by transform_cfg() has accepted an empty       *)
(* INTERIOR block.                                                         *)
C14_EmptyBlockRejected ==
  \A k \in TransformedGraphs : EmptyInteriorBlocks(k) = {}

\* a pass has shortened an INTERIOR block without emptying it, and the result
\* graph holds the shortened block
C14_Witness ==
  \E k \in TransformedGraphs :
    \E i \in 1..Len(W.graphs[k].m_basic_blocks) :
      LET new == W.heap[W.graphs[k].m_basic_blocks[i]]
          orig == W.heap[W.graphs[k - 1].m_basic_blocks[i]]
      IN /\ new.m_kind = "BASICBLOCK_INTERIOR"
         /\ 0 < Len(new.m_instructions)
         /\ Len(new.m_instructions) < Len(orig.m_instructions)

(* C15. In every graph of the optimizer pipeline (the one build() returns  *)
(* and every one a later LVN or DSE transform_cfg() returns) every         *)
(* INTERIOR block holds at least one instruction and the ENTRY and EXIT    *)
(* blocks hold none.                                                       *)
C15_BlockSizes ==
  W.err = "" =>
    \A k \in 1..Len(W.graphs) :
      /\ EmptyInteriorBlocks(k) = {}
      /\ \A b \in BlocksOfKind(W.heap, W.graphs[k], "BASICBLOCK_ENTRY")
                \cup BlocksOfKind(W.heap, W.graphs[k], "BASICBLOCK_EXIT") :
            W.heap[b].m_instructions = <<>>

\* a graph of several INTERIOR blocks has gone through two passes and all the
\* INTERIOR blocks of the three graphs hold instructions
C15_Witness ==
  /\ W.err = ""
  /\ Len(W.graphs) >= 3
  /\ \A k \in 1..Len(W.graphs) : EmptyInteriorBlocks(k) = {}
  /\ Cardinality(BlocksOfKind(W.heap, W.graphs[1], "BASICBLOCK_INTERIOR")) >= 2

----------------------------------------------------------------------------
(* C16. Dataflow<LiveVregsAnalysis>::execute() terminates on every graph,  *)
(* graphs with loops included: once the pass loop is entered it            *)
(* eventually makes a full pass in which no logical-end fact changes, and  *)
(* execute() returns.                                                      *)
C16_ExecuteTerminates ==
  (pc = "executing") ~> (pc = "built" /\ df.executes >= 1)

\* execute() has returned on a graph with a backward branch, having found a
\* register live at the end of the block that branches back
C16_Witness ==
  /\ pc = "built"
  /\ df.executes >= 1
  /\ \E e \in AllOutEdges(AnalysedGraph) :
        /\ e.m_kind = "EDGE_BRANCH"
        /\ W.heap[e.m_target].m_code_order <= W.heap[e.m_source].m_code_order
        /\ LogicalBeginFact(e.m_source) # get_top_fact
        /\ LogicalEndFact(e.m_source) # LogicalBeginFact(e.m_source)

----------------------------------------------------------------------------
\* the blocks of the set S by ascending code order
RECURSIVE Ascending(_)
Ascending(S) ==
  IF S = {} THEN <<>>
  ELSE LET b == CHOOSE x \in S : \A y \in S : W.heap[x].m_code_order <= W.heap[y].m_code_order
       IN <<b>> \o Ascending(S \ {b})

RECURSIVE InstructionsOfBlocks(_)
InstructionsOfBlocks(order) ==
  IF order = <<>> THEN <<>>
  ELSE [i \in 1..Len(W.heap[Head(order)].m_instructions) |->
          W.heap[Head(order)].m_instructions[i].ins] \o InstructionsOfBlocks(Tail(order))

\* block c comes right after block b in the code order of graph G
ImmediatelyAfter(G, b, c) ==
  /\ W.heap[b].m_code_order < W.heap[c].m_code_order
  /\ \A x \in BlocksOf(G) : ~(/\ W.heap[b].m_code_order < W.heap[x].m_code_order
                              /\ W.heap[x].m_code_order < W.heap[c].m_code_order)

(* C17. In every graph made by build() and then by any number of           *)
(* transform_cfg() calls every FALLTHROUGH edge leads from a block to the  *)
(* block right after it in ascending code_order, so that                   *)
(* create_instruction_sequence() takes the order-preserving path, never    *)
(* the chunk-based one, and what it emits is the blocks in ascending       *)
(* code_order, ENTRY first and EXIT last.                                  *)
C17_OrderPreservingPath ==
  W.err = "" =>
    /\ \A k \in 1..Len(W.graphs) :
         /\ \A e \in AllOutEdges(W.graphs[k]) :
               e.m_kind = "EDGE_FALLTHROUGH" => ImmediatelyAfter(W.graphs[k], e.m_source, e.m_target)
         /\ code_orders_distinct(W.heap, W.graphs[k])
         /\ can_use_original_block_order(W.heap, W.graphs[k])
         /\ LET order == Ascending(BlocksOf(W.graphs[k]))
            IN /\ W.heap[order[1]].m_kind = "BASICBLOCK_ENTRY"
               /\ W.heap[order[Len(order)]].m_kind = "BASICBLOCK_EXIT"
    /\ pc = "flat" /\ flat.err = "" =>
         [i \in 1..Len(flat.seq.m_instructions) |-> flat.seq.m_instructions[i].ins]
           = InstructionsOfBlocks(Ascending(BlocksOf(W.graphs[cfg])))

\* a graph with several INTERIOR blocks and a FALLTHROUGH edge between two of
\* them has gone through a pass and has been turned into a sequence
C17_Witness ==
  /\ pc = "flat"
  /\ flat.err = ""
  /\ Len(W.graphs) >= 2
  /\ Len(flat.seq.m_instructions) >= 2
  /\ \E e \in AllOutEdges(W.graphs[cfg]) :
        /\ e.m_kind = "EDGE_FALLTHROUGH"
        /\ W.heap[e.m_source].m_kind = "BASICBLOCK_INTERIOR"
        /\ W.heap[e.m_target].m_kind = "BASICBLOCK_INTERIOR"

----------------------------------------------------------------------------
(* Views of a graph and of the sequence made of it                         *)

FallthroughEdges(G) == {e \in AllOutEdges(G) : e.m_kind = "EDGE_FALLTHROUGH"}

\* the blocks some chain of one or more FALLTHROUGH edges leads to from S
RECURSIVE FallthroughClosure(_, _)
FallthroughClosure(G, S) ==
  LET S1 == S \cup {e.m_target : e \in {x \in FallthroughEdges(G) : x.m_source \in S}}
  IN IF S1 = S THEN S ELSE FallthroughClosure(G, S1)

FallthroughAfter(G, b) ==
  FallthroughClosure(G, {e.m_target : e \in {x \in FallthroughEdges(G) : x.m_source = b}})

\* every block is reachable from ENTRY, no block has two incoming or two
\* outgoing FALLTHROUGH edges, and no FALLTHROUGH cycle exists
ChunkPrecondition(G) ==
  /\ BlocksOf(G) = ReachableFrom(G, {G.m_entry})
  /\ \A b \in BlocksOf(G) :
        /\ Cardinality({e \in FallthroughEdges(G) : e.m_source = b}) <= 1
        /\ Cardinality({e \in FallthroughEdges(G) : e.m_target = b}) <= 1
        /\ b \notin FallthroughAfter(G, b)

\* where in the emitted sequence the j-th instruction of block b stands
EmittedAt(b, j) ==
  {i \in 1..Len(flat.seq.m_instructions) :
     flat.seq.m_instructions[i].ins = W.heap[b].m_instructions[j].ins}

\* the blocks joined to EXIT by FALLTHROUGH edges
ExitChunkBlocks(G) == {b \in BlocksOf(G) : b = G.m_exit \/ G.m_exit \in FallthroughAfter(G, b)}

RECURSIVE SumOfLengths(_)
SumOfLengths(S) ==
  IF S = {} THEN 0
  ELSE LET b == CHOOSE x \in S : TRUE
       IN Len(W.heap[b].m_instructions) + SumOfLengths(S \ {b})

\* what reconstruct_instruction_sequence() gives for the graph: every label
\* and instruction once, FALLTHROUGH neighbours adjoining, the chunk of EXIT last
ChunkOutcome(G) ==
  LET out == flat.seq.m_instructions
  IN /\ flat.err = ""
     /\ flat.seq.m_next_label = NoLabel
     /\ Len(out) = SumOfLengths(BlocksOf(G))
     /\ \A b \in BlocksOf(G) : \A j \in 1..Len(W.heap[b].m_instructions) :
           /\ Cardinality(EmittedAt(b, j)) = 1
           /\ \A i \in EmittedAt(b, j) :
                 /\ out[i].label = W.heap[b].m_instructions[j].label
                 /\ j > 1 => (i - 1) \in EmittedAt(b, j - 1)
     /\ \A e \in FallthroughEdges(G) :
           LET a == W.heap[e.m_source].m_instructions
               b == W.heap[e.m_target].m_instructions
           IN a # <<>> /\ b # <<>> =>
                \A i \in EmittedAt(e.m_source, Len(a)) : (i + 1) \in EmittedAt(e.m_target, 1)
     /\ \A x \in ExitChunkBlocks(G), y \in BlocksOf(G) \ ExitChunkBlocks(G) :
           \A j \in 1..Len(W.heap[x].m_instructions), k \in 1..Len(W.heap[y].m_instructions) :
              \A i \in EmittedAt(x, j), l \in EmittedAt(y, k) : l < i

\* the chunk-based path has been taken for the graph
Reconstructed == pc = "flat" /\ ~can_use_original_block_order(W.heap, BuiltGraph)

(* C18 as stated. reconstruct_instruction_sequence(), on a graph in which  *)
(* every block is reachable from ENTRY, each block has at most one         *)
(* incoming and at most one outgoing FALLTHROUGH edge and no FALLTHROUGH   *)
(* cycle exists: the label and the instructions of every block are emitted *)
(* exactly once; for every FALLTHROUGH edge (a, b) the instructions of b   *)
(* directly follow those of a; the blocks of the chunk with EXIT come      *)
(* after all others.                                                       *)
C18_ChunkReconstruction ==
  Reconstructed /\ ChunkPrecondition(BuiltGraph) => ChunkOutcome(BuiltGraph)

(* C18 as amended. The same, on a graph that moreover has as many blocks   *)
(* with an outgoing edge as blocks with an incoming edge; on a graph that  *)
(* meets the stated precondition but not this one the call fails its       *)
(* assertion on the sizes of the two edge maps.                            *)
C18_ChunkReconstructionSameSizes ==
  Reconstructed /\ ChunkPrecondition(BuiltGraph) =>
    IF Cardinality(DOMAIN BuiltGraph.m_outgoing_edges)
         = Cardinality(DOMAIN BuiltGraph.m_incoming_edges)
      THEN ChunkOutcome(BuiltGraph)
      ELSE flat.err = "assert(m_outgoing_edges.size() == m_incoming_edges.size())"

\* the chunk-based path has run on a graph that meets the precondition and in
\* which a FALLTHROUGH edge leads from an INTERIOR block to a labelled
\* INTERIOR block that is before it in the code order
C18_Witness ==
  /\ pc = "flat"
  /\ ~can_use_original_block_order(W.heap, BuiltGraph)
  /\ ChunkPrecondition(BuiltGraph)
  /\ flat.err = ""
  /\ \E e \in FallthroughEdges(BuiltGraph) :
        /\ W.heap[e.m_source].m_kind = "BASICBLOCK_INTERIOR"
        /\ W.heap[e.m_target].m_kind = "BASICBLOCK_INTERIOR"
        /\ W.heap[e.m_target].m_code_order < W.heap[e.m_source].m_code_order
        /\ W.heap[e.m_target].m_instructions[1].label # NoLabel

----------------------------------------------------------------------------
\* the indexes of the input sequence that INTERIOR block b covers
IndexRange(b) ==
  W.heap[b].m_code_order .. (W.heap[b].m_code_order + Len(W.heap[b].m_instructions) - 1)

\* no index is in two blocks, and each block holds, once and in order, the
\* instructions of the input at the indexes from its start index on
ScannedOnce ==
  LET I == BlocksOfKind(W.heap, BuiltGraph, "BASICBLOCK_INTERIOR")
  IN /\ \A b, c \in I : b # c => IndexRange(b) \cap IndexRange(c) = {}
     /\ \A b \in I : \A j \in 1..Len(W.heap[b].m_instructions) :
           /\ W.heap[b].m_code_order + j - 1 < Len(iseq.m_instructions)
           /\ W.heap[b].m_instructions[j].ins = InsAt(W.heap[b].m_code_order + j - 1)

CoveredIndexes ==
  UNION {IndexRange(b) : b \in BlocksOfKind(W.heap, BuiltGraph, "BASICBLOCK_INTERIOR")}

----------------------------------------------------------------------------
\* the reachable branches whose label is the one defined at the end of the
\* input sequence
BranchesToEnd ==
  {i \in ReachAttachedFrom({0}) :
     /\ iseq.m_next_label # NoLabel
     /\ IsTakenBranch(InsAt(i))
     /\ BranchLabelOf(InsAt(i)) = iseq.m_next_label}

(* C20. A branch whose target label is defined at the end of the input     *)
(* sequence (after the last instruction, so that its target index is the   *)
(* length of the sequence) gives a BRANCH edge from the block it ends to   *)
(* the EXIT block.                                                         *)
C20_BranchToEndReachesExit ==
  pc # "start" =>
    \A i \in BranchesToEnd :
       /\ cfg # NullPtr
       /\ \E e \in AllOutEdges(BuiltGraph) :
             /\ e.m_kind = "EDGE_BRANCH"
             /\ e.m_target = BuiltGraph.m_exit
             /\ W.heap[e.m_source].m_code_order + Len(W.heap[e.m_source].m_instructions) - 1 = i

\* a sequence with a label at its end that no branch names has been built,
\* and it has a branch to another label
C20_Witness ==
  /\ pc = "built"
  /\ iseq.m_next_label # NoLabel
  /\ BranchesToEnd = {}
  /\ \E e \in AllOutEdges(BuiltGraph) : e.m_kind = "EDGE_BRANCH"

----------------------------------------------------------------------------
(* Views of a DSE step: the graph DSE read, its blocks, the liveness facts *)
(* of its m_live_vregs                                                     *)

\* no operands, or a label or immediate as operand 0, or a label as operand 1
IsStructural(x) ==
  \/ x.operands = <<>>
  \/ x.operands[1].kind \in {"LABEL", "IMM_IVAL"}
  \/ (Len(x.operands) >= 2 /\ x.operands[2].kind = "LABEL")

\* a move of a register to itself: operands 0 and 1 are the same register operand
SameRegisterMove(x) ==
  /\ x.opcode \in MovOpcodes
  /\ Len(x.operands) = 2
  /\ x.operands[1].kind = "VREG"
  /\ x.operands[2] = x.operands[1]

\* operand 0 of x is a plain virtual register above vr10
PlainLocalDestination(x) ==
  /\ x.operands # <<>>
  /\ x.operands[1].kind = "VREG"
  /\ x.operands[1].basereg > 10

\* the liveness fact right after instruction i (from 1) of block b of the graph
\* DSE read
LiveAfter(b, i) == get_fact_after_instruction(W.heap, df, b, i - 1)

\* DSE did not append instruction i (from 1) of block b to the new block
RemovedByDse(b, i) == \A k \in 1..Len(dse_log[b]) : dse_log[b][k] # i - 1

DseHasRun == dse_cfg # NullPtr /\ W.err = ""

----------------------------------------------------------------------------
(* C21. DSE removal rule: an instruction that is neither structural nor a  *)
(* same-register move is removed exactly when its operand 0 is a plain     *)
(* virtual register numbered above 10 that is not in the liveness fact     *)
(* right after the instruction; every other instruction is kept, unchanged *)
(* and in its original relative order; so no instruction that writes       *)
(* memory or one of vr0..vr10 is removed by the rule.                      *)
C21_RemovalRule ==
  DseHasRun =>
    \A b \in BlocksOf(W.graphs[lvn_cfg]) :
       LET ins == InstructionsOf(b)
           out == InstructionsOf(CounterpartIn(dse_cfg, lvn_cfg, b))
           kept == {i \in 1..Len(ins) : ~RemovedByDse(b, i)}
       IN /\ \A i \in 1..Len(ins) :
                ~SameRegisterMove(ins[i]) =>
                   (RemovedByDse(b, i) <=>
                      /\ ~IsStructural(ins[i])
                      /\ PlainLocalDestination(ins[i])
                      /\ ins[i].operands[1].basereg \notin LiveAfter(b, i))
          /\ Len(out) = Cardinality(kept)
          /\ \A k \in 1..Len(out) :
                \E i \in kept : /\ out[k] = ins[i]
                                /\ Cardinality({j \in kept : j < i}) = k - 1

\* DSE has run on a block where it removed a dead move to a local register and
\* on one where it kept a store through a register that is dead afterwards
C21_Witness ==
  /\ DseHasRun
  /\ \E b \in BlocksOf(W.graphs[lvn_cfg]) :
        \E i \in 1..Len(InstructionsOf(b)) :
           LET x == InstructionsOf(b)[i]
           IN /\ ~IsStructural(x) /\ ~SameRegisterMove(x)
              /\ x.operands[1].kind \in {"VREG_MEM", "VREG_MEM_OFF"}
              /\ x.operands[1].basereg > 10
              /\ x.operands[1].basereg \notin LiveAfter(b, i)
              /\ ~RemovedByDse(b, i)

----------------------------------------------------------------------------
(* C22. DSE drops a mov as a no-op only when its source and destination    *)
(* are the same register operand: whenever DSE removes a mov whose operand *)
(* 0 is live after it, or is not a plain register above vr10 (so that the  *)
(* liveness rule does not remove it), operands 0 and 1 of the mov are      *)
(* identical, of the same kind and with the same register number.          *)
C22_OnlyIdenticalOperandsDropped ==
  DseHasRun =>
    \A b \in BlocksOf(W.graphs[lvn_cfg]) :
       \A i \in 1..Len(InstructionsOf(b)) :
          LET x == InstructionsOf(b)[i]
          IN (/\ x.opcode \in MovOpcodes
              /\ ~IsStructural(x)
              /\ RemovedByDse(b, i)
              /\ ~(PlainLocalDestination(x) /\ x.operands[1].basereg \notin LiveAfter(b, i)))
             => /\ x.operands[2].kind = x.operands[1].kind
                /\ x.operands[2].basereg = x.operands[1].basereg

\* DSE has dropped a move of a live register to itself
C22_Witness ==
  /\ DseHasRun
  /\ \E b \in BlocksOf(W.graphs[lvn_cfg]) :
        \E i \in 1..Len(InstructionsOf(b)) :
           LET x == InstructionsOf(b)[i]
           IN /\ SameRegisterMove(x)
              /\ x.operands[1].basereg \in LiveAfter(b, i)
              /\ RemovedByDse(b, i)

----------------------------------------------------------------------------
(* Views of an LVN step                                                    *)

LvnHasRun == lvn_cfg # NullPtr /\ W.err = ""

\* the tables of LVN when it comes to instruction k (from 1) of block blk
TablesBefore(blk, k, garbage) ==
  LvnInstructions(NewLVN, SubSeq(W.heap[blk].m_instructions, 1, k - 1), garbage)

\* the first register recorded for the value number that register r holds when
\* LVN comes to instruction k of blk; a register not seen before holds a value
\* number of its own
FirstRegisterOnEntry(blk, k, r, garbage) ==
  LET L == TablesBefore(blk, k, garbage)
  IN IF MapHas(L.vreg_to_value_number, r)
       THEN L.value_number_to_vregs[L.vreg_to_value_number[r]][1]
       ELSE r

\* operand m (from 1) of x is a source operand that names a register
IsRegisterSource(x, m) == m >= 2 /\ x.operands[m].kind \notin {"IMM_IVAL", "LABEL"}

----------------------------------------------------------------------------
(* C23. LVN rewrites the source operands of an instruction with the        *)
(* bindings in effect before the instruction binds its own destination: a  *)
(* source register r is replaced by the first register recorded for the    *)
(* value number r held on entry to the instruction, also when r is the     *)
(* instruction's destination.                                              *)
C23_SourcesUseEntryBindings ==
  LvnHasRun =>
    \A blk \in InteriorBlocks(cfg) :
       LET ins == InstructionsOf(blk)
           out == InstructionsOf(CounterpartIn(lvn_cfg, cfg, blk))
       IN \A k \in 1..Len(ins) :
             lvn_log[blk][k] # 0 =>
               \A m \in 1..Len(ins[k].operands) :
                  IsRegisterSource(ins[k], m) =>
                    \E garbage \in GarbageVals :
                       out[k].operands[m].basereg
                         = FirstRegisterOnEntry(blk, k, ins[k].operands[m].basereg, garbage)

\* LVN has rewritten a source register to the first register of its value
\* number, in an instruction whose destination is another register
C23_Witness ==
  /\ LvnHasRun
  /\ \E blk \in InteriorBlocks(cfg) :
        LET ins == InstructionsOf(blk)
            out == InstructionsOf(CounterpartIn(lvn_cfg, cfg, blk))
        IN \E k \in 1..Len(ins) :
              \E m \in 1..Len(ins[k].operands) :
                 /\ lvn_log[blk][k] # 0
                 /\ IsRegisterSource(ins[k], m)
                 /\ ins[k].operands[1].basereg # ins[k].operands[m].basereg
                 /\ out[k].operands[m].basereg # ins[k].operands[m].basereg
                 /\ out[k].operands[m].basereg
                      = FirstRegisterOnEntry(blk, k, ins[k].operands[m].basereg, 0)

----------------------------------------------------------------------------
\* x is op t1, a, b and y is op t2, b, a with a and b different operands
SwappedComputation(x, y) ==
  /\ x.opcode = y.opcode
  /\ x.opcode \notin MovOpcodes
  /\ Len(x.operands) = 3 /\ Len(y.operands) = 3
  /\ x.operands[1].kind = "VREG" /\ y.operands[1].kind = "VREG"
  /\ x.operands[2] = y.operands[3] /\ x.operands[3] = y.operands[2]
  /\ x.operands[2] # x.operands[3]
  /\ x.operands[1].basereg # y.operands[1].basereg
  /\ {x.operands[1].basereg, y.operands[1].basereg} \cap SourceRegs(x) = {}

CommutativeOpcodes ==
  {"HINS_add_b", "HINS_add_w", "HINS_add_l", "HINS_add_q",
   "HINS_mul_b", "HINS_mul_w", "HINS_mul_l", "HINS_mul_q"}

(* C24. LVN key canonicalization: for a commutative opcode (the add and    *)
(* mul opcodes) op t1, a, b and a later op t2, b, a in the same block,     *)
(* with no write to a, b or t1 in between, get the same value number, and  *)
(* later uses of t2 are rewritten to t1; for any other opcode the operand  *)
(* order is part of the key and the two instructions get different value   *)
(* numbers.                                                                *)
C24_KeyCanonicalization ==
  LvnHasRun =>
    \A blk \in InteriorBlocks(cfg) :
       LET ins == InstructionsOf(blk)
           out == InstructionsOf(CounterpartIn(lvn_cfg, cfg, blk))
           vn == lvn_log[blk]
       IN \A i, j \in 1..Len(ins) :
             (/\ i < j
              /\ SwappedComputation(ins[i], ins[j])
              /\ \A k \in (i + 1)..(j - 1) :
                    \A r \in SourceRegs(ins[i]) \cup {ins[i].operands[1].basereg} :
                       ~Writes(ins[k], r))
             => IF ins[i].opcode \in CommutativeOpcodes
                  THEN /\ vn[j] = vn[i]
                       /\ \A k \in (j + 1)..Len(ins) :
                             \A m \in 2..Len(ins[k].operands) :
                                ins[k].operands[m].basereg = ins[j].operands[1].basereg
                                  => out[k].operands[m].basereg = ins[i].operands[1].basereg
                  ELSE vn[j] # vn[i]

\* LVN has run on a block with an addition or multiplication directly followed
\* by its swapped twin, whose result is read later
C24_Witness ==
  /\ LvnHasRun
  /\ \E blk \in InteriorBlocks(cfg) :
        LET ins == InstructionsOf(blk)
            out == InstructionsOf(CounterpartIn(lvn_cfg, cfg, blk))
        IN /\ Len(ins) >= 3
           /\ SwappedComputation(ins[1], ins[2])
           /\ ins[1].opcode \in CommutativeOpcodes
           /\ lvn_log[blk][2] = lvn_log[blk][1]
           /\ ins[3].operands[2].basereg = ins[2].operands[1].basereg
           /\ out[3].operands[2].basereg = ins[1].operands[1].basereg

----------------------------------------------------------------------------
(* Views of the facts of an executed analysis                              *)

\* execute() has returned on the analysis held in df
Executed == df # NoDataflow /\ W.err = "" /\ pc \in {"lvn", "dse", "done"}

\* the blocks of the analysed graph that hold instructions
BlocksWithCode == {b \in BlocksOf(AnalysedGraph) : W.heap[b].m_instructions # <<>>}

----------------------------------------------------------------------------
(* C25. Instruction-level queries agree with the stored block facts: once  *)
(* execute() of the liveness analysis has returned, for every block B of   *)
(* the graph with instructions i1..in, get_fact_before_instruction(B, i1)  *)
(* is get_fact_at_beginning_of_block(B), get_fact_after_instruction(B, in) *)
(* is get_fact_at_end_of_block(B), and get_fact_after_instruction(B, ik)   *)
(* is get_fact_before_instruction(B, ik+1) for 1 <= k < n.                 *)
C25_QueriesAgreeWithBlockFacts ==
  Executed =>
    \A B \in BlocksWithCode :
       LET n == Len(W.heap[B].m_instructions)
       IN /\ get_fact_before_instruction(W.heap, df, B, 0)
               = get_fact_at_beginning_of_block(W.heap, df, B)
          /\ get_fact_after_instruction(W.heap, df, B, n - 1)
               = get_fact_at_end_of_block(W.heap, df, B)
          /\ \A k \in 0..(n - 2) :
                get_fact_after_instruction(W.heap, df, B, k)
                  = get_fact_before_instruction(W.heap, df, B, k + 1)

\* execute() has returned on a graph with a block of two instructions, the
\* first one reading a register, whose queries agree with its stored facts
C25_Witness ==
  /\ Executed
  /\ \E B \in BlocksWithCode :
        /\ Len(W.heap[B].m_instructions) >= 2
        /\ get_fact_before_instruction(W.heap, df, B, 0) # {}
        /\ get_fact_before_instruction(W.heap, df, B, 0)
             = get_fact_at_beginning_of_block(W.heap, df, B)
        /\ get_fact_after_instruction(W.heap, df, B, 0)
             = get_fact_before_instruction(W.heap, df, B, 1)

----------------------------------------------------------------------------
(* C26. LVN is block-local: the block that transform_basic_block returns   *)
(* for a block of the graph is the block it returns for that block taken   *)
(* alone, with empty tables, whatever the blocks transformed before it and *)
(* whatever the unassigned operand_value_number holds; no value number or  *)
(* register binding of one block reaches the rewriting of another.         *)
C26_BlockLocal ==
  LvnHasRun =>
    \A blk \in BlocksOf(W.graphs[cfg]) :
       \A garbage \in GarbageVals :
          InstructionsOf(CounterpartIn(lvn_cfg, cfg, blk))
            = [i \in 1..Len(W.heap[blk].m_instructions) |->
                 LVN_transform_basic_block(W.heap[blk], garbage).new_bb.m_instructions[i].ins]

\* LVN has run on a graph where a block copies u to t and a block transformed
\* after it reads t, and the read of t is left as it is
C26_Witness ==
  /\ LvnHasRun
  /\ \E blk1, blk2 \in InteriorBlocks(cfg) :
        LET x == InstructionsOf(blk1)[1]
            y == InstructionsOf(blk2)[1]
        IN /\ W.heap[blk1].m_block_id < W.heap[blk2].m_block_id
           /\ x.opcode \in MovOpcodes /\ y.opcode \in MovOpcodes
           /\ x.operands[2].kind = "VREG" /\ y.operands[2].kind = "VREG"
           /\ x.operands[1].kind = "VREG"
           /\ x.operands[1].basereg # x.operands[2].basereg
           /\ y.operands[2].basereg = x.operands[1].basereg
           /\ InstructionsOf(CounterpartIn(lvn_cfg, cfg, blk2))[1] = y

----------------------------------------------------------------------------
\* every branch of the input sequence names a label that an instruction carries
AllBranchesResolve ==
  \A i \in 0..(Len(iseq.m_instructions) - 1) :
     IsTakenBranch(InsAt(i)) => IsAttached(BranchLabelOf(InsAt(i)))

(* C27. build() runs to completion, no assertion failing, for every        *)
(* instruction sequence whose branch target labels all resolve, sequences  *)
(* with a conditional branch to the next instruction and sequences ending  *)
(* in an unconditional jump included.                                      *)
C27_BuildCompletes ==
  pc # "start" /\ AllBranchesResolve => pc # "failed" /\ W.err = "" /\ cfg # NullPtr

\* build() has returned a graph for a sequence with two branches, both resolved
C27_Witness ==
  /\ pc = "built"
  /\ AllBranchesResolve
  /\ Cardinality({i \in 0..(Len(iseq.m_instructions) - 1) : IsTakenBranch(InsAt(i))}) >= 2

----------------------------------------------------------------------------
(* Liveness by paths: program point <<b, k>> of the analysed graph is the  *)
(* place right after the first k instructions of block b                   *)

ProgramPoints ==
  {<<b, k>> : b \in BlocksOf(AnalysedGraph), k \in 0..MaxLen + 4}
    \cap UNION {{<<b, k>> : k \in 0..Len(W.heap[b].m_instructions)} : b \in BlocksOf(AnalysedGraph)}

\* instruction x uses register r; instruction x defines register r
UsesReg(x, r) == \E j \in 0..(get_num_operands(x) - 1) : is_use(x, j) /\ get_operand(x, j).basereg = r

DefinesReg(x, r) == is_def(x) /\ get_def_vreg(x) = r

\* one step backwards: the points from which a point of S is reached without
\* passing a definition of r, and the points right before a use of r
LiveStep(r, S) ==
  {p \in ProgramPoints :
     LET b == p[1]
         k == p[2]
         ins == InstructionsOf(b)
     IN IF k < Len(ins)
          THEN \/ UsesReg(ins[k + 1], r)
               \/ (~DefinesReg(ins[k + 1], r) /\ <<b, k + 1>> \in S)
          ELSE \E e \in OutEdges(AnalysedGraph, b) : <<e.m_target, 0>> \in S}

RECURSIVE LivePointsFrom(_, _)
LivePointsFrom(r, S) ==
  LET S1 == S \cup LiveStep(r, S)
  IN IF S1 = S THEN S ELSE LivePointsFrom(r, S1)

\* the points from which some path reaches a use of r before any definition of r
LivePoints(r) == LivePointsFrom(r, {})

\* the registers that the instructions of the analysed graph mention
RegistersOfGraph ==
  UNION {UNION {{InstructionsOf(b)[i].operands[m].basereg :
                   m \in 1..Len(InstructionsOf(b)[i].operands)} :
                  i \in 1..Len(InstructionsOf(b))} : b \in BlocksOf(AnalysedGraph)} \ {NoReg}

----------------------------------------------------------------------------
(* C28. The liveness result matches the definition by paths: once          *)
(* execute() has returned on a built graph, for every block B, instruction *)
(* i of B and virtual register r, r is in get_fact_after_instruction(B, i) *)
(* exactly when some path of the graph that starts right after i reaches   *)
(* an instruction that uses r before any instruction that defines r, also  *)
(* in blocks from which EXIT cannot be reached.                            *)
C28_LivenessByPaths ==
  Executed =>
    \A r \in RegistersOfGraph :
       \A B \in BlocksOf(AnalysedGraph) :
          \A i \in 1..Len(InstructionsOf(B)) :
             r \in LiveAfter(B, i) <=> <<B, i>> \in LivePoints(r)

\* execute() has returned on a graph with a loop that reads a register, and
\* the register is live after the branch that closes the loop
C28_Witness ==
  /\ Executed
  /\ \E B \in BlocksOf(AnalysedGraph) :
        \E e \in OutEdges(AnalysedGraph, B) :
           \E r \in RegistersOfGraph :
              LET n == Len(InstructionsOf(B))
              IN /\ e.m_kind = "EDGE_BRANCH"
                 /\ B \in ReachableFrom(AnalysedGraph, {e.m_target})
                 /\ n >= 1
                 /\ r \in LiveAfter(B, n)
                 /\ <<B, n>> \in LivePoints(r)

----------------------------------------------------------------------------
(* C30. DSE is sound on every built graph: apart from moves of a register  *)
(* to itself, DSE never removes an instruction whose destination register  *)
(* is read by some instruction reachable along a path of the graph from it *)
(* before that register is redefined, instructions inside loops from which *)
(* EXIT cannot be reached included.                                        *)
C30_DseSound ==
  DseHasRun =>
    \A b \in BlocksOf(W.graphs[lvn_cfg]) :
       \A i \in 1..Len(InstructionsOf(b)) :
          LET x == InstructionsOf(b)[i]
          IN RemovedByDse(b, i) /\ ~SameRegisterMove(x) /\ is_def(x)
               => <<b, i>> \notin LivePoints(get_def_vreg(x))

\* DSE has removed, in a graph with a loop, an instruction whose destination
\* register no path reads before it is redefined
C30_Witness ==
  /\ DseHasRun
  /\ \E e \in AllOutEdges(W.graphs[lvn_cfg]) :
        e.m_kind = "EDGE_BRANCH" /\ e.m_source \in ReachableFrom(W.graphs[lvn_cfg], {e.m_target})
  /\ \E b \in BlocksOf(W.graphs[lvn_cfg]) :
        \E i \in 1..Len(InstructionsOf(b)) :
           LET x == InstructionsOf(b)[i]
           IN /\ RemovedByDse(b, i) /\ ~SameRegisterMove(x) /\ is_def(x)
              /\ <<b, i>> \notin LivePoints(get_def_vreg(x))

----------------------------------------------------------------------------
(* What a block computes: a machine state holds the values of the virtual  *)
(* registers and the written memory cells; cells never written hold their  *)
(* initial contents                                                        *)

\* registers start with a value in 0..MaxInitialValue
MaxInitialValue == 2

\* the initial contents of memory: all cells zero, or every cell different
InitialMemories == {"zero", "distinct"}

InitialCell(memory, a) == IF memory = "zero" THEN 0 ELSE 2 * a + 7

ReadCell(S, a) == IF MapHas(S.mem, a) THEN S.mem[a] ELSE InitialCell(S.memory, a)

\* the address a memory reference names
AddressOf(S, op) == S.reg[op.basereg] + (IF op.kind = "VREG_MEM_OFF" THEN op.imm_ival ELSE 0)

ReadOperand(S, op) ==
  IF op.kind = "IMM_IVAL" THEN op.imm_ival
  ELSE IF op.kind = "VREG" THEN S.reg[op.basereg]
  ELSE ReadCell(S, AddressOf(S, op))

WriteOperand(S, op, v) ==
  IF op.kind = "VREG" THEN [S EXCEPT !.reg[op.basereg] = v]
  ELSE [S EXCEPT !.mem = MapPut(@, AddressOf(S, op), v)]

AddOpcodes == {"HINS_add_b", "HINS_add_w", "HINS_add_l", "HINS_add_q"}

SubOpcodes == {"HINS_sub_b", "HINS_sub_w", "HINS_sub_l", "HINS_sub_q"}

MulOpcodes == {"HINS_mul_b", "HINS_mul_w", "HINS_mul_l", "HINS_mul_q"}

\* the state after instruction x; branches, nop and ret write nothing
StepInstruction(S, x) ==
  IF x.opcode \in MovOpcodes
    THEN WriteOperand(S, x.operands[1], ReadOperand(S, x.operands[2]))
  ELSE IF x.opcode \in AddOpcodes
    THEN WriteOperand(S, x.operands[1],
                      ReadOperand(S, x.operands[2]) + ReadOperand(S, x.operands[3]))
  ELSE IF x.opcode \in SubOpcodes
    THEN WriteOperand(S, x.operands[1],
                      ReadOperand(S, x.operands[2]) - ReadOperand(S, x.operands[3]))
  ELSE IF x.opcode \in MulOpcodes
    THEN WriteOperand(S, x.operands[1],
                      ReadOperand(S, x.operands[2]) * ReadOperand(S, x.operands[3]))
  ELSE S

RECURSIVE RunBlock(_, _)
RunBlock(S, inss) ==
  IF inss = <<>> THEN S
  ELSE The({RunBlock(S1, Tail(inss)) : S1 \in {StepInstruction(S, Head(inss))}})

\* the registers the instructions inss mention
RegistersOf(inss) ==
  UNION {{inss[i].operands[m].basereg : m \in 1..Len(inss[i].operands)} :
           i \in 1..Len(inss)} \ {NoReg}

InitialStates(inss) ==
  {[reg |-> reg, mem |-> EmptyMap, memory |-> memory] :
     reg \in [RegistersOf(inss) -> 0..MaxInitialValue], memory \in InitialMemories}

\* two final states agree on every register and on every memory cell
SameFinalState(S, T) ==
  /\ S.reg = T.reg
  /\ \A a \in (DOMAIN S.mem) \cup (DOMAIN T.mem) : ReadCell(S, a) = ReadCell(T, a)

\* blocks a and b leave the same registers and memory from every initial state
SameSemantics(a, b) ==
  \A S \in InitialStates(a \o b) : SameFinalState(RunBlock(S, a), RunBlock(S, b))

----------------------------------------------------------------------------
(* C29. LVN preserves block semantics: for every basic block and every     *)
(* initial assignment of values to registers and memory, executing the     *)
(* block that transform_basic_block returns leaves every register and      *)
(* every memory cell with the same final value as executing the original   *)
(* block.                                                                  *)
C29_LvnPreservesSemantics ==
  LvnHasRun /\ pc = "lvn" =>
    \A blk \in InteriorBlocks(cfg) :
       SameSemantics(InstructionsOf(blk), InstructionsOf(CounterpartIn(lvn_cfg, cfg, blk)))

\* LVN has rewritten a source register of a block and the rewritten block
\* computes what the original block computes
C29_Witness ==
  /\ LvnHasRun /\ pc = "lvn"
  /\ \E blk \in InteriorBlocks(cfg) :
        LET ins == InstructionsOf(blk)
            out == InstructionsOf(CounterpartIn(lvn_cfg, cfg, blk))
        IN /\ out # ins
           /\ SameSemantics(ins, out)

====
